---- MODULE Spec2Model ----
(***************************************************************************)
(* iframe-rpc: a provider (createIframeRpcServer, running in an iframe)    *)
(* and a consumer (IframeRpcClient, running in the parent window) that     *)
(* talk over postMessage.                                                  *)
(*                                                                         *)
(* Strings that the code splits, joins or builds from templates are        *)
(* sequences of tokens (Str): "nested.test" is <<"nested", ".", "test">>,  *)
(* so that split('.') and join('.') are computed, not assumed.             *)
(***************************************************************************)
EXTENDS Integers, Sequences, FiniteSets, TLC

\* ------------------------------------------------------------------ bounds

\* How many call ids the consumer's genId hands out in one run.
MaxCalls == 2

\* The clock (Date.now()) runs from 0 to MaxTime.
MaxTime == 2

\* How many times the user code calls __release in one run.
MaxReleases == 1

\* How many messages a page script posts to a provider by hand in one run.
MaxRaw == 3

\* How deep the claims look into a returned value for a function.
MaxDepth == 3

\* Foreign messages posted to the two peers in one run.
MaxNoise == 2

\* Page-lifecycle events (beforeunload, pagehide) fired in one run.
MaxPageEvents == 1

\* ----------------------------------------------------------------- strings

DOT == "."

\* String.prototype.split('.') on a token string; "".split('.') is [""].
RECURSIVE Split(_)
Split(s) ==
  IF s = <<>> THEN << <<>> >>
  ELSE LET rest == Split(Tail(s)) IN
       IF Head(s) = DOT THEN << <<>> >> \o rest
       ELSE << <<Head(s)>> \o rest[1] >> \o Tail(rest)

\* Array.prototype.join('.').
RECURSIVE Join(_)
Join(parts) ==
  IF Len(parts) = 0 THEN <<>>
  ELSE IF Len(parts) = 1 THEN parts[1]
  ELSE parts[1] \o <<DOT>> \o Join(Tail(parts))

\* A one-token string.
K(t) == <<t>>

\* ------------------------------------------------------------------ values
\* A JavaScript value on the provider side: a reference [k, n, v].
\*   k = "undef" | "prim" (number v) | "str" (text n) | "err" (Error, message n)
\*     | "fn" (function n closed over v) | "obj" (object n built from v)
\*     | "pass" (structured-clone built-in n) | "cyc" (object that JSON cannot print)

Undef == [k |-> "undef", n |-> "", v |-> 0]
Prim(x) == [k |-> "prim", n |-> "", v |-> x]
StrV(s) == [k |-> "str", n |-> s, v |-> 0]
ErrV(msg) == [k |-> "err", n |-> msg, v |-> 0]
Fn(name, x) == [k |-> "fn", n |-> name, v |-> x]
Obj(name, x) == [k |-> "obj", n |-> name, v |-> x]
Pass(name) == [k |-> "pass", n |-> name, v |-> 0]
CycV == [k |-> "cyc", n |-> "", v |-> 0]

\* The outcome of a property read that ran a throwing getter.
Thrown == [k |-> "thrown", n |-> "", v |-> 0]

\* A property descriptor: where the property lives (own / on the prototype),
\* whether it is enumerable, whether it is an accessor and whether reading
\* it throws.
Data(key, val) ==
  [key |-> K(key), own |-> TRUE, enum |-> TRUE, get |-> FALSE, throws |-> FALSE, val |-> val]
ProtoMethod(key, val) ==
  [key |-> K(key), own |-> FALSE, enum |-> FALSE, get |-> FALSE, throws |-> FALSE, val |-> val]
ProtoGetter(key, val) ==
  [key |-> K(key), own |-> FALSE, enum |-> FALSE, get |-> TRUE, throws |-> FALSE, val |-> val]
\* An own enumerable data property under any key: `key` is the key's text,
\* which may be empty or contain dots.
Named(key, val) ==
  [key |-> key, own |-> TRUE, enum |-> TRUE, get |-> FALSE, throws |-> FALSE, val |-> val]
Getter(key, val) ==
  [key |-> K(key), own |-> TRUE, enum |-> TRUE, get |-> TRUE, throws |-> FALSE, val |-> val]
BadGetter(key) ==
  [key |-> K(key), own |-> TRUE, enum |-> TRUE, get |-> TRUE, throws |-> TRUE, val |-> Undef]

\* The JavaScript engine the provider runs on.  The program sees it in one
\* place: the order in which Object.getOwnPropertyNames lists the members of
\* Array.prototype.
VARIABLE engine

\* Node 20 lists the change-by-copy methods (toReversed, toSorted, toSpliced,
\* with) after toString, Node 22 before toLocaleString.
Engines == {"node20", "node22"}

\* The names of the function members of Array.prototype, in the order
\* Object.getOwnPropertyNames gives them on each engine.
ArrayMethodOrders ==
  LET older == << "at", "concat", "copyWithin", "fill", "find", "findIndex", "findLast",
                  "findLastIndex", "lastIndexOf", "pop", "push", "reverse", "shift",
                  "unshift", "slice", "sort", "splice", "includes", "indexOf", "join",
                  "keys", "entries", "values", "forEach", "filter", "flat", "flatMap",
                  "map", "every", "some", "reduce", "reduceRight" >>
      byCopy == << "toReversed", "toSorted", "toSpliced", "with" >>
      texts == << "toLocaleString", "toString" >>
  IN [node20 |-> older \o texts \o byCopy, node22 |-> older \o byCopy \o texts]

ArrayMethodNames == ArrayMethodOrders[engine]

\* The methods of an array other than `at`.
ArrayMethodsButAt ==
  {<<ArrayMethodOrders.node20[i]>> : i \in 2..Len(ArrayMethodOrders.node20)}

ArrayFunctionNames ==
  [i \in 1..Len(ArrayMethodNames) |-> "Array." \o ArrayMethodNames[i]]

\* What an array built from x inherits: every function of Array.prototype.
ArrayProto(x) ==
  [i \in 1..Len(ArrayMethodNames) |->
     ProtoMethod(ArrayMethodNames[i], Fn(ArrayFunctionNames[i], x))]

\* The objects of the two providers' APIs and of the values their functions
\* return, each as its properties in definition order.
Props(r) ==
  IF r.k # "obj" THEN <<>>
  ELSE CASE r.n = "api1" ->
              << Data("a", Prim(1)), Data("test", Fn("test", 0)),
                 Data("slow", Fn("slow", 0)), Data("fail", Fn("fail", 0)),
                 Data("mkAdder", Fn("mkAdder", 0)),
                 Data("testNested", Fn("testNested", 0)),
                 Data("make", Fn("make", 0)),
                 Data("nested", Obj("nested", 0)),
                 Getter("served", Prim(r.v)),
                 BadGetter("bad") >>
         [] r.n = "nested" ->
              << Data("a", Prim(2)), Data("test", Fn("ntest", 0)) >>
         [] r.n = "api2" ->
              << Data("b", Prim(7)), Data("test", Fn("test2", 0)) >>
         [] r.n = "tn" ->
              << Data("a", Prim(r.v + 1000)), Data("test", Fn("tnTest", r.v)) >>
         [] r.n = "plain" ->
              << Data("val", Prim(r.v)), Data("d", Pass("Date")) >>
         [] r.n = "deep" ->
              << Data("val", Prim(r.v)), Data("nested", Obj("deepN", r.v)) >>
         [] r.n = "deepN" ->
              << Data("fn", Fn("deepFn", r.v)) >>
         [] r.n = "inst" ->
              << Data("val", Prim(r.v)), ProtoGetter("twice", Prim(2 * r.v)),
                 ProtoMethod("m", Fn("instM", r.v)) >>
         [] r.n = "risky" ->
              << Data("fail", Fn("fail", 0)), Data("slow", Fn("slow", 0)) >>
         [] r.n = "graph" ->
              \* an API with a cycle and with an object shared by two paths
              << Data("cycle", Obj("cyc", r.v)),
                 Data("first", Obj("holder", r.v)),
                 Data("shared", Obj("common", r.v)),
                 Data("mkCyclic", Fn("mkCyclic", 0)) >>
         [] r.n = "cyc" ->
              \* o, with o.self = o and o.nested.parent = o
              << Data("val", Prim(r.v)), Data("self", Obj("cyc", r.v)),
                 Data("nested", Obj("cycN", r.v)) >>
         [] r.n = "cycN" ->
              << Data("val", Prim(r.v)), Data("parent", Obj("cyc", r.v)),
                 Data("fn", Fn("cycFn", r.v)) >>
         [] r.n = "holder" ->
              << Data("inner", Obj("common", r.v)) >>
         [] r.n = "common" ->
              << Data("fn", Fn("commonFn", r.v)) >>
         [] r.n = "keys" ->
              \* { plain: f, 'x.y': f, '': f, x: {...}, mkOdd: f }
              << Data("plain", Fn("test", 0)),
                 Named(<<"x", DOT, "y">>, Fn("test", 0)),
                 Named(<<>>, Fn("test", 0)),
                 Data("x", Obj("odd", r.v)),
                 Data("mkOdd", Fn("mkOdd", 0)) >>
         [] r.n = "odd" ->
              \* { '': f, 'a.b': f }
              << Named(<<>>, Fn("test", r.v)),
                 Named(<<"a", DOT, "b">>, Fn("test", r.v)) >>
         [] r.n = "nums" ->
              \* the array [v, v + 1]
              << Data("0", Prim(r.v)), Data("1", Prim(r.v + 1)) >> \o ArrayProto(r.v)
         [] OTHER -> <<>>

\* Array.isArray
IsArray(r) == r.k = "obj" /\ r.n = "nums"

\* What each function does when applied to one numeric argument:
\* [async, ok, val, settled]: whether it returns a promise, whether it
\* returns (resolves) or throws (rejects), the value or the cause, and
\* whether what it returns is settled by the time it returns (a value, the
\* promise of an async function that has no await, Promise.resolve(v)).
Returns(v) == [async |-> FALSE, ok |-> TRUE, val |-> v, settled |-> {TRUE}]
Resolves(v) == [async |-> TRUE, ok |-> TRUE, val |-> v, settled |-> {TRUE}]
Throws(e) == [async |-> FALSE, ok |-> FALSE, val |-> e, settled |-> {TRUE}]
Rejects(e) == [async |-> TRUE, ok |-> FALSE, val |-> e, settled |-> {TRUE}]
\* A promise the function may fulfil at once or from a later task.
Pends(v) == [async |-> TRUE, ok |-> TRUE, val |-> v, settled |-> BOOLEAN]

Behave(f, arg) ==
  CASE f.n = "test" -> Returns(Prim(arg + 1))
    [] f.n = "test2" -> Returns(Prim(arg + 2))
    [] f.n = "ntest" -> Returns(Prim(arg + 10))
    [] f.n = "slow" -> Pends(Prim(arg * 10))
    [] f.n = "fail" ->
         IF arg = 1 THEN Rejects(ErrV("boom"))
         ELSE IF arg = 2 THEN Throws(StrV("oops"))
         ELSE Throws(CycV)
    [] f.n = "mkAdder" -> Returns(Fn("adder", arg))
    [] f.n = "adder" -> Returns(Prim(f.v + arg))
    [] f.n = "testNested" -> Returns(Obj("tn", arg))
    [] f.n = "tnTest" -> Returns(Prim(arg + 1000))
    [] f.n = "make" ->
         IF arg = 1 THEN Returns(Obj("plain", arg))
         ELSE IF arg = 2 THEN Returns(Pass("Date"))
         ELSE IF arg = 3 THEN Resolves(Obj("deep", arg))
         ELSE IF arg = 4 THEN Returns(Obj("inst", arg))
         ELSE IF arg = 5 THEN Returns(Obj("nums", arg))
         ELSE IF arg = 6 THEN Returns(Obj("risky", arg))
         ELSE Returns(Undef)
    [] f.n = "mkOdd" -> Returns(Obj("odd", arg))
    [] f.n = "mkCyclic" -> Returns(Obj("cyc", arg))
    [] f.n = "cycFn" -> Returns(Prim(arg + f.v))
    [] f.n = "commonFn" -> Returns(Prim(arg + f.v + 100))
    [] f.n = "deepFn" -> Returns(Prim(arg + f.v))
    [] f.n = "instM" -> Returns(Prim(f.v))
    [] f.n = "Array.at" -> Returns(IF arg \in {0, 1} THEN Prim(f.v + arg) ELSE Undef)
    [] f.n = "Array.indexOf" ->
         Returns(IF arg \in {f.v, f.v + 1} THEN Prim(arg - f.v) ELSE Prim(0 - 1))
    [] f.n = "Array.lastIndexOf" ->
         Returns(IF arg \in {f.v, f.v + 1} THEN Prim(arg - f.v) ELSE Prim(0 - 1))
    [] f.n = "Array.toString" ->
         Returns([k |-> "str", n |-> ToString(f.v) \o "," \o ToString(f.v + 1), v |-> 0])
    [] f.n = "toString" -> Returns(StrV("[object Object]"))
    [] OTHER -> Returns(Undef)

\* ------------------------------------------------ provider: introspection

\* !!value in JavaScript.
Truthy(r) ==
  \/ r.k \in {"fn", "obj", "pass", "err", "cyc"}
  \/ r.k = "prim" /\ r.v # 0
  \/ r.k = "str" /\ r.n # ""

isObject(val) == val.k \in {"obj", "pass", "err", "cyc"}

isStructuredClonePassThrough(val) == val.k = "pass"

\* obj[key] (Reflect.get): the object's own and inherited properties, then
\* what every value inherits from the built-in prototypes. Reading a
\* property whose getter throws gives Thrown.
ReadFrom(hit, obj, key) ==
  IF hit # <<>> THEN (IF hit[1].throws THEN Thrown ELSE hit[1].val)
  ELSE IF key = K("toString") /\ obj.k # "undef" THEN Fn("toString", 0)
  ELSE Undef

\* obj[key] for an object whose properties are ps.
GetIn(ps, obj, key) == ReadFrom(SelectSeq(ps, LAMBDA d : d.key = key), obj, key)

Get(obj, key) == GetIn(Props(obj), obj, key)

KeysOf(descs) == [i \in 1..Len(descs) |-> descs[i].key]

\* The readable keys among the properties ps: own enumerable ones, own
\* non-enumerable accessors, accessors of the prototype chain.
ReadableAmong(ps) ==
  KeysOf(SelectSeq(ps, LAMBDA d : d.own /\ d.enum))
    \o KeysOf(SelectSeq(ps, LAMBDA d : d.own /\ ~d.enum /\ d.get))
    \o KeysOf(SelectSeq(ps, LAMBDA d : ~d.own /\ d.get /\ d.key # K("constructor")))

listReadableKeys(obj) ==
  IF ~isObject(obj) THEN <<>>
  ELSE IF isStructuredClonePassThrough(obj) THEN <<>>
  ELSE ReadableAmong(Props(obj))

listFunctionKeysForCollect(obj) ==
  IF ~isObject(obj) THEN <<>>
  ELSE IF isStructuredClonePassThrough(obj) THEN <<>>
  ELSE listReadableKeys(obj)
         \o KeysOf(SelectSeq(Props(obj),
              LAMBDA d : ~d.own /\ ~d.get /\ d.val.k = "fn" /\ d.key # K("constructor")))

\* collectFunctionPaths with its accumulators: [out, visited].
RECURSIVE collectInto(_, _, _, _)
RECURSIVE collectKeys(_, _, _, _, _, _)
RECURSIVE collectKey(_, _, _, _, _, _, _, _)
collectInto(obj, base, out, visited) ==
  IF ~isObject(obj) THEN [out |-> out, visited |-> visited]
  ELSE IF obj \in visited THEN [out |-> out, visited |-> visited]
  ELSE collectKeys(obj, Props(obj), listFunctionKeysForCollect(obj), base, out,
                   visited \cup {obj})
\* The loop over the keys of obj, whose properties are ps.
collectKeys(obj, ps, keys, base, out, visited) ==
  IF keys = <<>> THEN [out |-> out, visited |-> visited]
  ELSE collectKey(obj, ps, keys, base, out, visited,
                  GetIn(ps, obj, Head(keys)), Append(base, Head(keys)))
\* One turn of the loop, for the key Head(keys) read as v, at `path`.
collectKey(obj, ps, keys, base, out, visited, v, path) ==
  IF v = Thrown THEN collectKeys(obj, ps, Tail(keys), base, out, visited)
  ELSE IF v.k = "fn"
    THEN collectKeys(obj, ps, Tail(keys), base, Append(out, Join(path)), visited)
  ELSE IF isObject(v)
    THEN LET r == collectInto(v, path, out, visited)
         IN collectKeys(obj, ps, Tail(keys), base, r.out, r.visited)
  ELSE collectKeys(obj, ps, Tail(keys), base, out, visited)

collectFunctionPaths(obj) == collectInto(obj, <<>>, <<>>, {}).out

\* cloneValuesOnly. The clone is a graph: `nodes` maps every cloned object
\* (named by the object it is the clone of, as the code's `seen` map does) to
\* its entries <<key, value>>, so shared and cyclic references stay references.
RECURSIVE cloneInto(_, _)
RECURSIVE cloneKeys(_, _, _)
RECURSIVE cloneKey(_, _, _, _)
cloneInto(obj, nodes) ==
  IF obj.k = "fn" THEN [val |-> Undef, nodes |-> nodes]
  ELSE IF ~isObject(obj) THEN [val |-> obj, nodes |-> nodes]
  ELSE IF isStructuredClonePassThrough(obj) THEN [val |-> obj, nodes |-> nodes]
  ELSE IF obj \in DOMAIN nodes THEN [val |-> obj, nodes |-> nodes]
  ELSE IF IsArray(obj)
    THEN cloneKeys(obj, KeysOf(SelectSeq(Props(obj), LAMBDA d : d.own)),
                   nodes @@ (obj :> <<>>))
  ELSE cloneKeys(obj, listReadableKeys(obj), nodes @@ (obj :> <<>>))
cloneKeys(obj, keys, nodes) ==
  IF keys = <<>> THEN [val |-> obj, nodes |-> nodes]
  ELSE cloneKey(obj, keys, nodes, Get(obj, Head(keys)))
\* One turn of the loop, for the key Head(keys) read as v.
cloneKey(obj, keys, nodes, v) ==
  IF ~IsArray(obj) /\ (v = Thrown \/ v.k = "fn")
  THEN cloneKeys(obj, Tail(keys), nodes)
  ELSE LET r == cloneInto(v, nodes)
       IN cloneKeys(obj, Tail(keys),
                    [r.nodes EXCEPT ![obj] = Append(@, <<Head(keys), r.val>>)])

NoNodes == [x \in {} |-> <<>>]

\* Variant that cuts every reference back to the cloned root instead of
\* reproducing it.
cloneCut(obj) ==
  LET r == cloneInto(obj, NoNodes) IN
  [root |-> r.val,
   nodes |-> [n \in DOMAIN r.nodes |-> SelectSeq(r.nodes[n], LAMBDA e : e[2] # obj)]]

cloneValuesOnly(obj) ==
  LET r == cloneInto(obj, NoNodes) IN [root |-> r.val, nodes |-> r.nodes]

EmptyValues == [root |-> Undef, nodes |-> NoNodes]

\* Variant that prints every cause the way an Error is printed.
messageOnly(err) == K(IF err.k = "cyc" THEN "[object Object]" ELSE err.n)

\* serializeError: an Error gives its message, anything else its JSON text,
\* and what JSON.stringify cannot print gives String(err).
serializeError(err) ==
  CASE err.k = "err" -> K(err.n)
    [] err.k = "str" -> <<"\"", err.n, "\"">>
    [] err.k = "prim" -> K(ToString(err.v))
    [] err.k = "cyc" -> K("[object Object]")

\* The CALL handler's getDeep: walk the dotted path, giving undefined as soon
\* as the value walked from is falsy.
RECURSIVE walk(_, _)
walk(cur, parts) ==
  IF parts = <<>> THEN cur
  ELSE IF cur = Thrown THEN Thrown
  ELSE IF ~Truthy(cur) THEN Undef
  ELSE walk(Get(cur, Head(parts)), Tail(parts))

getDeep(obj, path) == walk(obj, Split(path))

\* ------------------------------------------------------------------- state

\* The provider windows (two iframes that both register the same channel
\* name).
Providers == {"P1", "P2"}

Origin(p) == "https://" \o p

ParentOrigin == "https://parent"

\* The channel name both sides were created with.
ChannelName == "testApi"

\* No window (event.source / targetWindow null) and no handle (CALL.handle
\* undefined).
NoWindow == ""
NoHandle == ""

\* The numeric arguments the user code passes to each callable, by the
\* method it names (the empty method is a function-kind handle).  Of the
\* methods of an array the user code calls `at` only.
ArgsFor(method) ==
  CASE method = K("slow") -> {1, 2}
    [] method \in ArrayMethodsButAt -> {}
    [] method = K("fail") -> {1, 2, 3}
    [] method = K("make") -> {1, 2, 3, 4, 5}
    [] method = K("mkAdder") -> {2}
    [] method = K("mkCyclic") -> {5}
    [] method = <<>> -> {3}
    [] OTHER -> {1}

\* The provider options a run is created with.
ServerOptionSets ==
  { [handleTtlMs |-> 1, sweepIntervalMs |-> 1] }

\* The consumer options a run is created with.
\* allowedOrigins is given as a list (allowedFn false: its members) or as a
\* predicate (allowedFn true: the origins it returns true for, and throwsOn,
\* the origins it throws for).
\* timeout is in units of the clock.
\* weakRefAvailable and finalReg are not options but what the host offers
\* (typeof WeakRef, typeof FinalizationRegistry), fixed at construction.
ClientOptionSets ==
  { [hideStructure |-> h, hasTargetOrigin |-> FALSE, targetOrigin |-> "",
     hasAllowedOrigins |-> FALSE, allowedFn |-> FALSE, allowedOrigins |-> {},
     throwsOn |-> {}, timeout |-> 1,
     releaseOnPageHide |-> "nonPersisted",
     weakRefAvailable |-> TRUE, finalReg |-> TRUE] : h \in BOOLEAN }

VARIABLES
  now,            \* Date.now()
  sOpts,          \* provider: options (the same for both providers)
  built,          \* provider: the values and functions built at construction
  ignored,        \* the peers whose listener has dropped a message so far
  listening,      \* provider: message listener installed
  handles,        \* provider: handles, id -> value
  handleMeta,     \* provider: handleMeta, id -> lastUsed
  idSeq,          \* provider: the ids genId has produced, in order
  running,        \* provider: the CALLs awaiting their function's promise
  invoked,        \* provider: every function application made for a CALL
  broadcast,      \* provider: what became of the two sends of its initial broadcast
  unpostable,     \* parent window: the message types its postMessage throws for
  rawCount,       \* page script: how many messages it posted by hand
  toServer,       \* messages posted to each provider window, in order
  toClient,       \* messages each provider posted to the parent window, in order
  cOpts,          \* consumer: options
  listenerOn,     \* consumer: message listener attached
  timerArmed,     \* consumer: initTimer pending
  initPromise,    \* consumer: the promise init() returned
  targetWindow,   \* consumer: targetWindow
  serverOrigin,   \* consumer: serverOrigin
  values,         \* consumer: values
  functionSet,    \* consumer: functionSet
  pending,        \* consumer: pending (the ids awaiting RESULT/ERROR)
  released,       \* consumer: released
  activeHandles,  \* consumer: activeHandles, the entries in Map order
  heap,           \* the proxies created for handles: live, collected, finalized
  pageLog,        \* the page-lifecycle events fired so far
  callSeq,        \* consumer: how many ids genId has produced
  calls,          \* user: the CALL each call id was sent with
  promise,        \* user: the promise each invocation returned
  lastLocal,      \* user: the last invocation that was rejected without a CALL
  relCalled,      \* user: the handles __release was called on
  releaseCount    \* user: how many times __release was called

providerVars == <<engine, sOpts, built, listening, handles, handleMeta, idSeq, running, invoked, broadcast,
                  unpostable>>
srvVars == <<providerVars, ignored>>
chanVars == <<toServer, toClient, rawCount>>
bindVars == <<targetWindow, serverOrigin, values, functionSet>>
initVars == <<listenerOn, timerArmed, initPromise>>
callVars == <<pending, callSeq, calls, promise>>
relVars == <<released, activeHandles, heap, pageLog, relCalled, releaseCount>>
cliVars == <<cOpts, initVars, bindVars, callVars, relVars, lastLocal>>
vars == <<now, srvVars, chanVars, cliVars>>

NoFn == [x \in {} |-> Undef]

\* The API each provider exposes.  The functions of the first count the
\* calls they have served, and its getter `served` reads the count.
Served(p) == Cardinality({x \in invoked : x.p = p})

\* A run whose first provider exposes another API names it in `api`.
Api(p) ==
  IF p # "P1" THEN Obj("api2", 0)
  ELSE IF "api" \in DOMAIN sOpts THEN Obj(sOpts.api, 0)
  ELSE Obj("api1", Served(p))

\* `values` and `functions`, as createIframeRpcServer builds them.
Build(p) ==
  [values |-> cloneValuesOnly(Api(p)), functions |-> collectFunctionPaths(Api(p))]

NotBuilt == [values |-> EmptyValues, functions |-> <<>>]

NoLocal == [handle |-> NoHandle, error |-> <<>>]

\* Nothing created yet but the consumer, whose init() is waiting.
Created ==
  /\ now = 0
  /\ ignored = {}
  /\ built = [p \in Providers |-> NotBuilt]
  /\ listening = [p \in Providers |-> FALSE]
  /\ handles = [p \in Providers |-> NoFn]
  /\ handleMeta = [p \in Providers |-> NoFn]
  /\ idSeq = [p \in Providers |-> <<>>]
  /\ running = [p \in Providers |-> {}]
  /\ invoked = {}
  /\ broadcast = [p \in Providers |-> "none"]
  /\ unpostable = [p \in Providers |-> {}]
  /\ rawCount = 0
  /\ toServer = [p \in Providers |-> <<>>]
  /\ toClient = [p \in Providers |-> <<>>]
  /\ listenerOn = TRUE
  /\ timerArmed = TRUE
  /\ initPromise = [st |-> "pending", error |-> <<>>, functions |-> {},
                    values |-> EmptyValues]
  /\ targetWindow = NoWindow
  /\ serverOrigin = ""
  /\ values = EmptyValues
  /\ functionSet = {}
  /\ pending = {}
  /\ released = {}
  /\ activeHandles = <<>>
  /\ heap = NoFn
  /\ pageLog = <<>>
  /\ callSeq = 0
  /\ calls = NoFn
  /\ promise = NoFn
  /\ lastLocal = NoLocal
  /\ relCalled = {}
  /\ releaseCount = 0

Init ==
  /\ engine = "node20"
  /\ sOpts \in ServerOptionSets
  /\ cOpts \in ClientOptionSets
  /\ Created

\* ---------------------------------------------------------------- messages

Envelope(type, src, origin, tgt) ==
  [rpc |-> "iframe-rpc", name |-> ChannelName, type |-> type,
   src |-> src, origin |-> origin, tgt |-> tgt]

\* The READY of a provider that builds its payload as it posts: the
\* initial broadcast.
ReadyMsg(p, tgt) == Envelope("READY", p, Origin(p), tgt) @@ Build(p)

\* Variant that builds the payload again on every send.
sendRebuilt(p) == ReadyMsg(p, "*")

\* sendReady: READY with the payload built at construction.
sendReady(p) == Envelope("READY", p, Origin(p), "*") @@ built[p]

InitErrorMsg(p, error) == Envelope("INIT_ERROR", p, Origin(p), "*") @@ [error |-> error]

ResultMsg(p, id, result) ==
  Envelope("RESULT", p, Origin(p), "*") @@ [id |-> id, result |-> result]

ErrorMsg(p, id, error) ==
  Envelope("ERROR", p, Origin(p), "*") @@ [id |-> id, error |-> error]

CallMsg(id, method, arg, handle, tgt) ==
  Envelope("CALL", "parent", ParentOrigin, tgt) @@
    [id |-> id, method |-> method, arg |-> arg, handle |-> handle]

ReleaseMsg(handle, tgt) ==
  Envelope("RELEASE_HANDLE", "parent", ParentOrigin, tgt) @@ [handle |-> handle]

\* ---------------------------------------------------------------- provider

\* The texts Math.random().toString(36).slice(2) gives in one run.
RandomTexts == <<"i", "j", "k", "l", "m">>

\* genId: `${Date.now()}-${Math.random().toString(36).slice(2)}`, at clock
\* value t with the random text d.
ServerGenId(t, d) == ToString(t) \o "-" \o d

\* Variant that takes the magnitude of a negative handleTtlMs.
ttlAbs == IF sOpts.handleTtlMs < 0 THEN 0 - sOpts.handleTtlMs ELSE sOpts.handleTtlMs

ttlMs == IF sOpts.handleTtlMs > 0 THEN sOpts.handleTtlMs ELSE 0

sweepMs == IF sOpts.sweepIntervalMs > 0 THEN sOpts.sweepIntervalMs ELSE 0

\* The cause postMessage throws with when the payload cannot be cloned.
PostFailure == ErrV("DataCloneError: Uncloneable payload")

\* Variant that wraps functions only.
isFunction(result) == result.k = "fn"

hasFunctions(result) ==
  result.k = "fn" \/ (isObject(result) /\ Len(collectFunctionPaths(result)) > 0)

\* serializeResult on provider p's tables hs (handles) and hm (handleMeta),
\* with d the random text genId draws: the payload and the tables
\* afterwards (an id that is already a key replaces that entry), and the
\* ids produced so far.
serializeResult(p, result, hs, hm, seq, d) ==
  IF ~hasFunctions(result)
  THEN [payload |-> result, handles |-> hs, handleMeta |-> hm, idSeq |-> seq]
  ELSE LET id == ServerGenId(now, d)
           snap == cloneValuesOnly(result)
       IN [payload |->
             IF result.k = "fn"
             THEN [k |-> "handle", id |-> id, kind |-> "function",
                   values |-> EmptyValues, functions |-> <<>>]
             ELSE [k |-> "handle", id |-> id, kind |-> "object",
                   values |-> snap, functions |-> collectFunctionPaths(result)],
           handles |-> (id :> result) @@ hs,
           handleMeta |-> (id :> now) @@ hm,
           idSeq |-> Append(seq, id)]

\* createIframeRpcServer: the initial broadcast to the parent window (with
\* the outcome of its two sends), then the message listener.
\* Variant in which a failed broadcast aborts the construction.
ListenerIfSent(outcome) == outcome = "sent"

\* The listener is installed whatever the broadcast did.
ListenerAfterBroadcast(outcome) == TRUE

\* The message types the parent's postMessage throws for when the
\* broadcast has this outcome.
FaultsOf(outcome) ==
  CASE outcome = "sent" -> {}
    [] outcome = "readyThrows" -> {"READY"}
    [] OTHER -> {"READY", "INIT_ERROR"}

\* source.postMessage(msg, '*'): the queue of the parent window afterwards;
\* a post that throws delivers nothing.
postMessage(p, q, msg) == IF msg.type \in unpostable[p] THEN q ELSE Append(q, msg)

ServerCreate(p) ==
  /\ ~listening[p]
  /\ \E outcome \in {"sent", "readyThrows", "bothThrow"} :
       /\ unpostable' = [unpostable EXCEPT ![p] = FaultsOf(outcome)]
       /\ toClient' = [toClient EXCEPT ![p] =
            CASE outcome = "sent" -> Append(@, ReadyMsg(p, "*"))
              [] outcome = "readyThrows" ->
                   Append(@, InitErrorMsg(p, serializeError(PostFailure)))
              [] OTHER -> @]
       /\ built' = [built EXCEPT ![p] = Build(p)]
       /\ listening' = [listening EXCEPT ![p] = ListenerAfterBroadcast(outcome)]
       /\ broadcast' = [broadcast EXCEPT ![p] = outcome]
  /\ UNCHANGED <<now, engine, sOpts, ignored, handles, handleMeta, idSeq, running, invoked, toServer,
                 rawCount, cliVars>>

\* What the listener lets through: the discriminator, the channel name and a
\* source window.
\* Variant of the filter that does not compare the channel name.
AcceptsAnyName(p, m) ==
  /\ listening[p]
  /\ m.rpc = "iframe-rpc"
  /\ m.src # NoWindow

ServerAccepts(p, m) ==
  /\ listening[p]
  /\ m.rpc = "iframe-rpc" /\ m.name = ChannelName
  /\ m.src # NoWindow

ServerHead(p, type) ==
  /\ toServer[p] # <<>>
  /\ ServerAccepts(p, Head(toServer[p]))
  /\ Head(toServer[p]).type = type

\* The message types the provider's listener has a branch for.
ServerTypes == {"GET", "CALL", "RELEASE_HANDLE"}

\* A message the filter rejects, or of a type without a branch: the
\* listener returns without effect.
ServerIgnore(p) ==
  /\ listening[p]
  /\ toServer[p] # <<>>
  /\ \/ ~ServerAccepts(p, Head(toServer[p]))
     \/ Head(toServer[p]).type \notin ServerTypes
  /\ toServer' = [toServer EXCEPT ![p] = Tail(@)]
  /\ ignored' = ignored \cup {"provider"}
  /\ UNCHANGED <<now, providerVars, toClient, rawCount, cliVars>>

\* GET: READY again, to the window that asked; when the post throws the
\* listener ends there.
ServerOnGet(p) ==
  /\ ServerHead(p, "GET")
  /\ toServer' = [toServer EXCEPT ![p] = Tail(@)]
  /\ toClient' = [toClient EXCEPT ![p] = postMessage(p, @, sendReady(p))]
  /\ UNCHANGED <<now, srvVars, rawCount, cliVars>>

\* Variant that falls back to the API when the handle is unknown.
ApiWhenMissing(p, handle) ==
  IF handle # NoHandle /\ handle \in DOMAIN handles[p] THEN handles[p][handle] ELSE Api(p)

\* The context of a CALL: the handle's value, or the API without a handle.
CallContext(p, handle) ==
  IF handle # NoHandle
  THEN (IF handle \in DOMAIN handles[p] THEN handles[p][handle] ELSE Undef)
  ELSE Api(p)

\* target[last], or undefined for a falsy target.
ReadLast(target, last) ==
  IF target = Thrown THEN Thrown
  ELSE IF Truthy(target) THEN Get(target, last) ELSE Undef

\* Variant that looks every method up by name, the empty one included.
ResolveNamed(ctx, method) ==
  IF method = <<>> THEN Undef ELSE getDeep(ctx, method)

\* Method resolution: the function a method names in ctx (Thrown when a
\* getter on the way throws).
ResolveMethod(ctx, method) ==
  IF method # <<>>
  THEN LET parts == Split(method)
           parentPath == Join(SubSeq(parts, 1, Len(parts) - 1))
       IN ReadLast(IF parentPath # <<>> THEN getDeep(ctx, parentPath) ELSE ctx,
                   parts[Len(parts)])
  ELSE ctx

MethodNotFound(method) ==
  <<"Method ">> \o (IF method # <<>> THEN method ELSE K("<root>")) \o <<" not found">>

HandleNotFound(handle) == <<"Handle ", handle, " not found">>

\* Variant in which a CALL leaves lastUsed as it is.
NoTouch(hm, handle) == hm

\* lastUsed after a CALL on `handle` was received.
TouchHandle(hm, handle) ==
  IF handle # NoHandle /\ handle \in DOMAIN hm THEN [hm EXCEPT ![handle] = now] ELSE hm

\* The post of a RESULT inside the try: when it throws, the catch posts an
\* ERROR with the cause, and when that throws too nothing is delivered.
postResult(p, q, id, payload) ==
  IF "RESULT" \in unpostable[p]
  THEN postMessage(p, q, ErrorMsg(p, id, serializeError(PostFailure)))
  ELSE Append(q, ResultMsg(p, id, payload))

\* The end of a CALL: RESULT with the serialised result (the handle
\* serializeResult registered stays whatever becomes of the post), or ERROR
\* with the stringified cause.
FinishWith(p, id, ok, val, hm, s) ==
  IF ok
  THEN /\ handles' = [handles EXCEPT ![p] = s.handles]
       /\ handleMeta' = [handleMeta EXCEPT ![p] = s.handleMeta]
       /\ idSeq' = [idSeq EXCEPT ![p] = s.idSeq]
       /\ toClient' = [toClient EXCEPT ![p] = postResult(p, @, id, s.payload)]
  ELSE /\ handles' = handles
       /\ handleMeta' = [handleMeta EXCEPT ![p] = hm]
       /\ idSeq' = idSeq
       /\ toClient' = [toClient EXCEPT ![p] = postMessage(p, @, ErrorMsg(p, id, serializeError(val)))]

\* Every id a provider has produced.
Produced == UNION {{idSeq[q][n] : n \in 1..Len(idSeq[q])} : q \in Providers}

\* What genId may draw now.  A text matters only through the id it gives
\* being one produced before or not, so the draws are taken up to renaming:
\* the texts that repeat an id of this millisecond, and one that does not.
Draws ==
  {RandomTexts[n] : n \in {m \in 1..Len(RandomTexts) :
      \A k \in 1..(m - 1) : ServerGenId(now, RandomTexts[k]) \in Produced}}

FinishCall(p, id, ok, val, hm) ==
  \E d \in Draws :
    FinishWith(p, id, ok, val, hm, serializeResult(p, val, handles[p], hm, idSeq[p], d))

\* fn is applied for the CALL m, with outcome b. What it throws is caught in
\* the same turn; what it returns, a promise or not, is awaited, and the rest
\* of the handler runs once the await resumes (`micro`: with the next
\* microtasks, in the order `ord` of the invocations, which is when a value
\* or a promise that is already settled resumes it).
Invoke(p, m, fn, hm, b) ==
  /\ invoked' = invoked \cup {[p |-> p, id |-> m.id, fn |-> fn, arg |-> m.arg]}
  /\ IF b.async \/ b.ok
     THEN /\ \E settled \in b.settled :
               running' = [running EXCEPT ![p] =
                 @ \cup {[id |-> m.id, handle |-> m.handle, ok |-> b.ok, val |-> b.val,
                          micro |-> settled, ord |-> Served(p) + 1]}]
          /\ handleMeta' = [handleMeta EXCEPT ![p] = hm]
          /\ UNCHANGED <<handles, idSeq, toClient>>
     ELSE /\ FinishCall(p, m.id, b.ok, b.val, hm)
          /\ UNCHANGED running

\* Variant that serves only the paths of the function list sent for the
\* context, and the empty method on a function handle.
DispatchListed(p, m, ctx, hm, fn) ==
  IF m.handle # NoHandle /\ ~Truthy(ctx)
  THEN /\ toClient' = [toClient EXCEPT ![p] =
            postMessage(p, @, ErrorMsg(p, m.id, HandleNotFound(m.handle)))]
       /\ UNCHANGED <<handles, handleMeta, idSeq, running, invoked>>
  ELSE IF ~(IF m.handle = NoHandle
            THEN \E i \in 1..Len(built[p].functions) : built[p].functions[i] = m.method
            ELSE IF ctx.k = "fn" THEN m.method = <<>>
            ELSE \E i \in 1..Len(collectFunctionPaths(ctx)) :
                   collectFunctionPaths(ctx)[i] = m.method)
  THEN /\ toClient' = [toClient EXCEPT ![p] =
            postMessage(p, @, ErrorMsg(p, m.id, MethodNotFound(m.method)))]
       /\ handleMeta' = [handleMeta EXCEPT ![p] = hm]
       /\ UNCHANGED <<handles, idSeq, running, invoked>>
  ELSE IF fn = Thrown
  THEN /\ handleMeta' = [handleMeta EXCEPT ![p] = hm]
       /\ UNCHANGED <<handles, idSeq, running, invoked, toClient>>
  ELSE IF fn.k # "fn"
  THEN /\ toClient' = [toClient EXCEPT ![p] =
            postMessage(p, @, ErrorMsg(p, m.id, MethodNotFound(m.method)))]
       /\ handleMeta' = [handleMeta EXCEPT ![p] = hm]
       /\ UNCHANGED <<handles, idSeq, running, invoked>>
  ELSE Invoke(p, m, fn, hm, Behave(fn, m.arg))

\* The CALL m in context ctx, whose method resolved to fn.
Dispatch(p, m, ctx, hm, fn) ==
  IF m.handle # NoHandle /\ ~Truthy(ctx)
  THEN /\ toClient' = [toClient EXCEPT ![p] =
            postMessage(p, @, ErrorMsg(p, m.id, HandleNotFound(m.handle)))]
       /\ UNCHANGED <<handles, handleMeta, idSeq, running, invoked>>
  ELSE IF fn = Thrown
  THEN \* the getter's exception ends the listener: no reply
       /\ handleMeta' = [handleMeta EXCEPT ![p] = hm]
       /\ UNCHANGED <<handles, idSeq, running, invoked, toClient>>
  ELSE IF fn.k # "fn"
  THEN /\ toClient' = [toClient EXCEPT ![p] =
            postMessage(p, @, ErrorMsg(p, m.id, MethodNotFound(m.method)))]
       /\ handleMeta' = [handleMeta EXCEPT ![p] = hm]
       /\ UNCHANGED <<handles, idSeq, running, invoked>>
  ELSE Invoke(p, m, fn, hm, Behave(fn, m.arg))

\* CALL: up to the reply, or up to the await of what the function returned.
ServerOnCall(p) ==
  /\ ServerHead(p, "CALL")
  /\ toServer' = [toServer EXCEPT ![p] = Tail(@)]
  /\ Dispatch(p, Head(toServer[p]), CallContext(p, Head(toServer[p]).handle),
              TouchHandle(handleMeta[p], Head(toServer[p]).handle),
              ResolveMethod(CallContext(p, Head(toServer[p]).handle),
                            Head(toServer[p]).method))
  /\ UNCHANGED <<now, engine, sOpts, built, ignored, listening, broadcast, unpostable, rawCount, cliVars>>

\* No handler is suspended at an await that the next microtask resumes:
\* timers and events run only then.
Quiet == \A p \in Providers : \A r \in running[p] : ~r.micro

\* The await resumes (for a promise: once it has settled, which is after
\* the microtasks pending by then): the rest of the CALL.
ServerSettle(p) ==
  /\ \E r \in running[p] :
       /\ \A q \in running[p] : q.micro => (r.micro /\ q.ord >= r.ord)
       /\ running' = [running EXCEPT ![p] = @ \ {r}]
       /\ FinishCall(p, r.id, r.ok, r.val, handleMeta[p])
  /\ UNCHANGED <<now, engine, sOpts, built, ignored, listening, invoked, broadcast, unpostable, toServer, rawCount, cliVars>>

\* Variant of the deletion that keeps the entry.
Kept(f, id) == f

Without(f, id) == [x \in DOMAIN f \ {id} |-> f[x]]

\* RELEASE_HANDLE: delete the handle, present or not.
ServerOnRelease(p) ==
  /\ ServerHead(p, "RELEASE_HANDLE")
  /\ toServer' = [toServer EXCEPT ![p] = Tail(@)]
  /\ LET id == Head(toServer[p]).handle IN
       IF id # NoHandle
       THEN /\ handles' = [handles EXCEPT ![p] = Without(@, id)]
            /\ handleMeta' = [handleMeta EXCEPT ![p] = Without(@, id)]
       ELSE UNCHANGED <<handles, handleMeta>>
  /\ UNCHANGED <<now, engine, sOpts, built, ignored, listening, idSeq, running, invoked, broadcast, unpostable, toClient,
                 rawCount, cliVars>>

\* One tick of the TTL sweeper (setInterval, armed only when both options
\* are positive).
\* Variant that also counts a handle idle for exactly the TTL.
ExpiredAtTtl(p) == {id \in DOMAIN handleMeta[p] : now - handleMeta[p][id] >= ttlMs}

Expired(p) == {id \in DOMAIN handleMeta[p] : now - handleMeta[p][id] > ttlMs}

\* Variant of the sweeper that evicts the metadata and keeps the value.
SweepMetaOnly(p) ==
  /\ listening[p]
  /\ ttlMs > 0 /\ sweepMs > 0
  /\ Quiet
  /\ handleMeta' = [handleMeta EXCEPT ![p] = [x \in DOMAIN @ \ Expired(p) |-> @[x]]]
  /\ UNCHANGED <<now, engine, sOpts, built, ignored, listening, handles, idSeq, running, invoked, broadcast, unpostable, chanVars, cliVars>>

\* Variant of the sweeper that spares a handle a CALL is executing on.
SweepIdleOnly(p) ==
  /\ listening[p]
  /\ ttlMs > 0 /\ sweepMs > 0
  /\ Quiet
  /\ handleMeta' = [handleMeta EXCEPT ![p] =
       [x \in DOMAIN @ \ {id \in Expired(p) : \A r \in running[p] : r.handle # id} |-> @[x]]]
  /\ handles' = [handles EXCEPT ![p] =
       [x \in DOMAIN @ \ {id \in Expired(p) : \A r \in running[p] : r.handle # id} |-> @[x]]]
  /\ UNCHANGED <<now, engine, sOpts, built, ignored, listening, idSeq, running, invoked, broadcast, unpostable, chanVars, cliVars>>

Sweep(p) ==
  /\ listening[p]
  /\ ttlMs > 0 /\ sweepMs > 0
  /\ Quiet
  /\ handleMeta' = [handleMeta EXCEPT ![p] = [x \in DOMAIN @ \ Expired(p) |-> @[x]]]
  /\ handles' = [handles EXCEPT ![p] = [x \in DOMAIN @ \ Expired(p) |-> @[x]]]
  /\ UNCHANGED <<now, engine, sOpts, built, ignored, listening, idSeq, running, invoked, broadcast, unpostable, chanVars, cliVars>>

\* The clock advances: Date.now() is read when a CALL is received and again
\* after the await, and may have moved in between.
Tick ==
  /\ now < MaxTime
  /\ now' = now + 1
  /\ UNCHANGED <<srvVars, chanVars, cliVars>>

\* ---------------------------------------------------------------- consumer

\* genId on the consumer: the n-th id, never produced before.
ClientGenId(n) == "c" \o ToString(n)

materializeStructure == ~cOpts.hideStructure

destinationOrigin ==
  IF cOpts.hasTargetOrigin THEN cOpts.targetOrigin
  ELSE IF serverOrigin # "" THEN serverOrigin
  ELSE "*"

\* Variant in which a predicate that throws lets the message through.
AllowedWhenThrows(origin) ==
  IF ~cOpts.hasAllowedOrigins THEN TRUE
  ELSE IF cOpts.allowedFn
       THEN origin \in cOpts.throwsOn \/ origin \in cOpts.allowedOrigins
       ELSE origin \in cOpts.allowedOrigins

isOriginAllowed(origin) ==
  IF ~cOpts.hasAllowedOrigins THEN TRUE
  ELSE IF cOpts.allowedFn
       THEN (IF origin \in cOpts.throwsOn THEN FALSE
             ELSE origin \in cOpts.allowedOrigins)
       ELSE origin \in cOpts.allowedOrigins

\* What the init() handler lets through.
ClientAccepts(m) ==
  /\ listenerOn
  /\ isOriginAllowed(m.origin)
  /\ m.rpc = "iframe-rpc" /\ m.name = ChannelName

ClientHead(p, type) ==
  /\ toClient[p] # <<>>
  /\ ClientAccepts(Head(toClient[p]))
  /\ Head(toClient[p]).type = type

SeqToSet(q) == {q[i] : i \in 1..Len(q)}

\* resolve / reject of the init promise: a settled promise stays as it is.
ResolveInit(fns, vals) ==
  IF initPromise.st = "pending"
  THEN [st |-> "resolved", error |-> <<>>, functions |-> fns, values |-> vals]
  ELSE initPromise

RejectInit(error) ==
  IF initPromise.st = "pending"
  THEN [st |-> "rejected", error |-> error, functions |-> {}, values |-> EmptyValues]
  ELSE initPromise

\* Variant in which the handlers leave initTimer as it is.
KeepTimer(armed) == armed

\* clearTimeout(initTimer): whether the timer is armed afterwards.
clearTimeout(armed) == FALSE

\* READY: bind to the sender, store its snapshot and function set, resolve
\* init() with the root (the materialised root is built here, from the
\* snapshot and the function set of this READY; the lazy root reads values
\* and functionSet on use).
ClientOnReady(p) ==
  /\ ClientHead(p, "READY")
  /\ toClient' = [toClient EXCEPT ![p] = Tail(@)]
  /\ LET m == Head(toClient[p]) IN
       /\ timerArmed' = clearTimeout(timerArmed)
       /\ targetWindow' = m.src
       /\ serverOrigin' = m.origin
       /\ values' = m.values
       /\ functionSet' = SeqToSet(m.functions)
       /\ initPromise' =
            IF materializeStructure
            THEN ResolveInit(SeqToSet(m.functions), m.values)
            ELSE ResolveInit({}, EmptyValues)
  /\ UNCHANGED <<now, srvVars, toServer, rawCount, cOpts, listenerOn, callVars, relVars, lastLocal>>

\* Map.prototype.set on activeHandles: an existing key keeps its place.
MapSet(table, id, ref) ==
  IF \E i \in 1..Len(table) : table[i].id = id
  THEN [i \in 1..Len(table) |->
          IF table[i].id = id THEN [id |-> id, ref |-> ref] ELSE table[i]]
  ELSE Append(table, [id |-> id, ref |-> ref])

\* Map.prototype.delete on activeHandles.
MapDelete(table, id) == SelectSeq(table, LAMBDA e : e.id # id)

\* The keys of activeHandles.
ActiveIds == {activeHandles[i].id : i \in 1..Len(activeHandles)}

\* A proxy `obj` ("root": the reference returned to the caller, "sub": a
\* scoped sub-proxy) was created for handle id: it is a new live object,
\* and where WeakRef exists the entry of the handle now refers to it.
Track(id, obj) ==
  /\ heap' = (<<id, obj>> :> "live") @@ heap
  /\ activeHandles' = IF cOpts.weakRefAvailable
                       THEN MapSet(activeHandles, id, obj) ELSE activeHandles

\* fromResultPayload: the reference the caller gets for a RESULT payload.
IsHandlePayload(payload) == payload.k = "handle"

fromResultPayload(payload) ==
  IF ~IsHandlePayload(payload) THEN payload
  ELSE [k |-> "handle", id |-> payload.id, kind |-> payload.kind,
        values |-> payload.values, functions |-> payload.functions,
        materialized |-> (payload.kind = "object" /\ materializeStructure)]

\* Variant without correlation: a reply settles whichever entry is pending.
AnyPending(id) == IF pending = {} THEN id ELSE CHOOSE x \in pending : TRUE

\* The pending entry a RESULT / ERROR with this id settles.
PendingFor(id) == id

\* Variant that settles the promise of the id again when its entry is gone.
SettleAgain(id, st, val, error) ==
  IF id \in DOMAIN promise
  THEN /\ promise' = [promise EXCEPT ![id] = [st |-> st, val |-> val, error |-> error]]
       /\ pending' = pending \ {id}
  ELSE UNCHANGED <<promise, pending>>

\* Variant that drops the reply to a call made on a handle released since.
SettleUnlessReleased(id, st, val, error) ==
  IF id \in pending /\ calls[id].handle \notin released
  THEN /\ promise' = [promise EXCEPT ![id] = [st |-> st, val |-> val, error |-> error]]
       /\ pending' = pending \ {id}
  ELSE UNCHANGED <<promise, pending>>

Settle(id, st, val, error) ==
  IF PendingFor(id) \in pending
  THEN /\ promise' = [promise EXCEPT ![PendingFor(id)] = [st |-> st, val |-> val, error |-> error]]
       /\ pending' = pending \ {PendingFor(id)}
  ELSE UNCHANGED <<promise, pending>>

\* RESULT: resolve the pending entry of that id, and track a returned
\* handle for auto-release.
ClientOnResult(p) ==
  /\ ClientHead(p, "RESULT")
  /\ toClient' = [toClient EXCEPT ![p] = Tail(@)]
  /\ LET m == Head(toClient[p]) IN
       /\ Settle(m.id, "resolved", fromResultPayload(m.result), <<>>)
       /\ IF m.id \in pending /\ IsHandlePayload(m.result)
          THEN Track(m.result.id, "root")
          ELSE UNCHANGED <<activeHandles, heap>>
  /\ UNCHANGED <<now, srvVars, toServer, rawCount, cOpts, initVars, bindVars, callSeq, calls,
                 released, pageLog, relCalled, releaseCount, lastLocal>>

\* ERROR: reject the pending entry of that id.
ClientOnError(p) ==
  /\ ClientHead(p, "ERROR")
  /\ toClient' = [toClient EXCEPT ![p] = Tail(@)]
  /\ LET m == Head(toClient[p]) IN Settle(m.id, "rejected", Undef, m.error)
  /\ UNCHANGED <<now, srvVars, toServer, rawCount, cOpts, initVars, bindVars, callSeq, calls,
                 relVars, lastLocal>>

\* INIT_ERROR: cancel the timer, remove the listener, reject init().
ClientOnInitError(p) ==
  /\ ClientHead(p, "INIT_ERROR")
  /\ toClient' = [toClient EXCEPT ![p] = Tail(@)]
  /\ timerArmed' = clearTimeout(timerArmed)
  /\ listenerOn' = FALSE
  /\ initPromise' = RejectInit(Head(toClient[p]).error)
  /\ UNCHANGED <<now, srvVars, toServer, rawCount, cOpts, bindVars, callVars, relVars, lastLocal>>

\* A message that finds no listener, or that the handler drops.
ClientTypes == {"READY", "RESULT", "ERROR", "INIT_ERROR"}

ClientIgnore(p) ==
  /\ toClient[p] # <<>>
  /\ \/ ~ClientAccepts(Head(toClient[p]))
     \/ Head(toClient[p]).type \notin ClientTypes
  /\ toClient' = [toClient EXCEPT ![p] = Tail(@)]
  /\ ignored' = ignored \cup {"consumer"}
  /\ UNCHANGED <<now, providerVars, toServer, rawCount, cliVars>>

InitTimeoutError == <<"iframe-rpc initialization timeout for name: ", ChannelName>>

\* The delay initTimer is armed with (at time 0, when init() runs).
timeoutMs == cOpts.timeout

\* initTimer fires, no earlier than its delay after it was armed (at once
\* for a delay of zero or less, but never inside init() itself): remove the
\* listener, reject init().
InitTimeout ==
  /\ Quiet
  /\ timerArmed
  /\ now >= timeoutMs
  /\ timerArmed' = FALSE
  /\ listenerOn' = FALSE
  /\ initPromise' = RejectInit(InitTimeoutError)
  /\ UNCHANGED <<now, srvVars, chanVars, cOpts, bindVars, callVars, relVars, lastLocal>>

\* ------------------------------------------------- consumer: alias paths

\* The longest chain of property reads the user code makes on a proxy.
MaxAlias == 4

\* obj[key] on an object of a snapshot or of a materialised tree.
snapGet(vals, cur, key) ==
  IF cur \in DOMAIN vals.nodes
  THEN LET hit == SelectSeq(vals.nodes[cur], LAMBDA e : e[1] = key) IN
       IF hit # <<>> THEN hit[1][2] ELSE Undef
  ELSE Undef

\* The consumer's getDeep on a snapshot: the snapshot itself for the empty
\* path, else a walk that gives undefined from a falsy value on.
RECURSIVE snapWalk(_, _, _)
snapWalk(vals, cur, parts) ==
  IF parts = <<>> THEN cur
  ELSE IF ~Truthy(cur) THEN Undef
  ELSE snapWalk(vals, snapGet(vals, cur, Head(parts)), Tail(parts))

valuesGetDeep(vals, path) ==
  IF path = <<>> THEN vals.root ELSE snapWalk(vals, vals.root, Split(path))

\* `${prefix}.${key}`, or key under the empty prefix.
PathOf(prefix, key) == IF prefix # <<>> THEN prefix \o <<DOT>> \o key ELSE key

\* buildCanonicalIndex with its accumulators [idx, visited]: a depth-first
\* walk over the snapshot that gives every object the path it is first
\* reached by.
RECURSIVE indexWalk(_, _, _, _)
RECURSIVE indexEntries(_, _, _, _)
indexWalk(vals, obj, path, acc) ==
  IF ~Truthy(obj) \/ ~isObject(obj) THEN acc
  ELSE IF isStructuredClonePassThrough(obj)
    THEN [acc EXCEPT !.idx = IF obj \in DOMAIN @ THEN @ ELSE (obj :> path) @@ @]
  ELSE IF obj \in acc.visited THEN acc
  ELSE indexEntries(vals, vals.nodes[obj], path,
         [idx |-> IF obj \in DOMAIN acc.idx THEN acc.idx ELSE (obj :> path) @@ acc.idx,
          visited |-> acc.visited \cup {obj}])
indexEntries(vals, entries, path, acc) ==
  IF entries = <<>> THEN acc
  ELSE indexEntries(vals, Tail(entries), path,
         indexWalk(vals, Head(entries)[2], PathOf(path, Head(entries)[1]), acc))

buildCanonicalIndex(vals) ==
  indexWalk(vals, vals.root, <<>>, [idx |-> [x \in {} |-> <<>>], visited |-> {}]).idx

\* Variant that looks a function up under the path it was read by only.
resolveDirect(vals, fset, parentPath, key) ==
  IF PathOf(parentPath, key) \in fset THEN PathOf(parentPath, key) ELSE <<>>

\* resolveAliasFunctionPath (and resolveLocal of a scoped proxy): the
\* recorded function path that reading `key` under parentPath names, or the
\* empty path (null) when it names none.
resolveAliasFunctionPath(vals, fset, parentPath, key) ==
  LET direct == PathOf(parentPath, key)
      parentObj == valuesGetDeep(vals, parentPath)
      idx == buildCanonicalIndex(vals)
  IN IF direct \in fset THEN direct
     ELSE IF ~Truthy(parentObj) \/ ~isObject(parentObj) THEN <<>>
     ELSE IF parentObj \notin DOMAIN idx THEN <<>>
     ELSE IF PathOf(idx[parentObj], key) \in fset THEN PathOf(idx[parentObj], key)
     ELSE <<>>

StartsWith(s, pre) == Len(s) >= Len(pre) /\ SubSeq(s, 1, Len(pre)) = pre

hasFunctionUnder(fset, prefix) ==
  LET pre == IF prefix # <<>> THEN prefix \o <<DOT>> ELSE <<>> IN
  \E f \in fset : f = prefix \/ StartsWith(f, pre)

\* What a property read on a proxy gives: a callable posting CALL with
\* `method`, a lazy proxy for the sub-tree at `prefix`, or a plain value.
Callable(method) == [k |-> "callable", method |-> method]
LevelProxy(prefix) == [k |-> "proxy", prefix |-> prefix]

\* readRootValue (and readScopedValue of a scoped proxy, for every key but
\* __release).
readRootValue(vals, fset, prefix, key) ==
  LET fullPath == PathOf(prefix, key)
      resolvedFnPath == resolveAliasFunctionPath(vals, fset, prefix, key)
      v == valuesGetDeep(vals, fullPath)
      parentObj == valuesGetDeep(vals, prefix)
      idx == buildCanonicalIndex(vals)
      aliasPrefix == IF parentObj \in DOMAIN idx THEN PathOf(idx[parentObj], key) ELSE key
  IN IF resolvedFnPath # <<>> THEN Callable(resolvedFnPath)
     ELSE IF v.k # "undef"
       THEN (IF isObject(v) /\ ~isStructuredClonePassThrough(v)
             THEN LevelProxy(fullPath) ELSE v)
     ELSE IF hasFunctionUnder(fset, fullPath) THEN LevelProxy(fullPath)
     ELSE IF Truthy(parentObj) /\ isObject(parentObj) /\ hasFunctionUnder(fset, aliasPrefix)
       THEN LevelProxy(fullPath)
     ELSE Undef

\* proxy.k1.k2...: each read goes through the proxy the read before gave.
\* Reading on from anything but a proxy leaves what the channel serves.
RECURSIVE readLazy(_, _, _, _)
readLazy(vals, fset, prefix, keys) ==
  LET r == readRootValue(vals, fset, prefix, Head(keys)) IN
  IF Len(keys) = 1 THEN r
  ELSE IF r.k = "proxy" THEN readLazy(vals, fset, r.prefix, Tail(keys))
  ELSE Undef

\* parentObj[key] = val on a tree.
Put(nodes, obj, key, val) ==
  IF obj \notin DOMAIN nodes THEN (obj :> << <<key, val>> >>) @@ nodes
  ELSE IF \E i \in 1..Len(nodes[obj]) : nodes[obj][i][1] = key
    THEN [nodes EXCEPT ![obj] =
            [i \in 1..Len(@) |-> IF @[i][1] = key THEN <<key, val>> ELSE @[i]]]
  ELSE [nodes EXCEPT ![obj] = Append(@, <<key, val>>)]

\* The second half of ensureTargetForParentPath: walk the tree from the
\* root, creating an object wherever the path finds none.
RECURSIVE ensureWalk(_, _, _)
ensureWalk(tree, cur, parts) ==
  IF parts = <<>> THEN [tree |-> tree, target |-> cur]
  ELSE LET at == snapGet(tree, cur, Head(parts))
           fresh == Obj("made", tree.made + 1)
       IN IF Truthy(at) /\ isObject(at) THEN ensureWalk(tree, at, Tail(parts))
          ELSE ensureWalk([tree EXCEPT !.nodes = Put(@, cur, Head(parts), fresh)
                                                   @@ (fresh :> <<>>),
                                       !.made = @ + 1],
                          fresh, Tail(parts))

\* ensureTargetForParentPath: the clone of the snapshot object at
\* parentPath, else the object the walk ends on.
ensureTargetForParentPath(vals, tree, parentPath) ==
  LET srcParent == valuesGetDeep(vals, parentPath) IN
  IF parentPath = <<>> THEN [tree |-> tree, target |-> tree.root]
  ELSE IF Truthy(srcParent) /\ isObject(srcParent)
          /\ ~isStructuredClonePassThrough(srcParent)
          /\ srcParent \in DOMAIN vals.nodes
    THEN [tree |-> tree, target |-> srcParent]
  ELSE ensureWalk(tree, tree.root, Split(parentPath))

\* The loop that installs one callable per recorded function path.
RECURSIVE installCallables(_, _, _)
installCallables(vals, tree, methods) ==
  IF methods = <<>> THEN tree
  ELSE LET parts == Split(Head(methods))
           e == ensureTargetForParentPath(vals, tree,
                  Join(SubSeq(parts, 1, Len(parts) - 1)))
       IN installCallables(vals,
            [e.tree EXCEPT !.nodes = Put(@, e.target, parts[Len(parts)],
                                         Callable(Head(methods)))],
            Tail(methods))

\* A set in some order.
RECURSIVE SetToSeq(_)
SetToSeq(S) ==
  IF S = {} THEN <<>>
  ELSE LET x == CHOOSE y \in S : TRUE IN <<x>> \o SetToSeq(S \ {x})

\* createMaterializedRoot / createMaterializedHandle: the clone of the
\* snapshot (each object cloned once, named by the object it is the clone
\* of) with the callables installed.
createMaterializedRoot(vals, methods) ==
  installCallables(vals, [root |-> vals.root, nodes |-> vals.nodes, made |-> 0], methods)

\* tree.k1.k2...
RECURSIVE treeRead(_, _, _)
treeRead(tree, cur, keys) ==
  IF keys = <<>> THEN cur
  ELSE treeRead(tree, snapGet(tree, cur, Head(keys)), Tail(keys))

\* The chains of object-valued properties of a snapshot, up to n long.
RECURSIVE ObjectChains(_, _, _)
ObjectChains(vals, cur, n) ==
  {<<>>} \cup
  (IF n = 0 \/ cur \notin DOMAIN vals.nodes THEN {}
   ELSE UNION { { <<vals.nodes[cur][i][1]>> \o rest :
                    rest \in ObjectChains(vals, vals.nodes[cur][i][2], n - 1) } :
                i \in {j \in 1..Len(vals.nodes[cur]) :
                         vals.nodes[cur][j][2] \in DOMAIN vals.nodes} })

\* The last key of a function path.
LeafKey(method) == Split(method)[Len(Split(method))]

\* The reads the user code makes: a function name the provider advertised,
\* through any chain of nested objects of the snapshot.
AliasReads(vals, fset) ==
  { chain \o <<LeafKey(f)>> :
      chain \in ObjectChains(vals, vals.root, MaxAlias - 1), f \in fset }

\* ------------------------------------------------------------ user code

TargetNotReady == K("RPC target not ready")

HandleReleased(handle) == <<"Handle ", handle, " released">>

\* Variant that records the pending entry before it looks at the target
\* window.
PendingFirst(method, arg, handle, tgt) ==
  LET id == ClientGenId(callSeq + 1) IN
  /\ callSeq' = callSeq + 1
  /\ pending' = pending \cup {id}
  /\ calls' = (id :> [method |-> method, arg |-> arg, handle |-> handle,
                      to |-> targetWindow]) @@ calls
  /\ promise' = (id :> [st |-> "pending", val |-> Undef, error |-> <<>>]) @@ promise
  /\ IF targetWindow = NoWindow
     THEN /\ lastLocal' = [handle |-> handle, error |-> TargetNotReady]
          /\ UNCHANGED toServer
     ELSE /\ toServer' = [toServer EXCEPT ![targetWindow] =
                            Append(@, CallMsg(id, method, arg, handle, tgt))]
          /\ UNCHANGED lastLocal

\* The body shared by every callable: reject without a CALL when the target
\* window is missing, else record the pending entry and post the CALL.
PostCall(method, arg, handle, tgt) ==
  IF targetWindow = NoWindow
  THEN /\ lastLocal' = [handle |-> handle, error |-> TargetNotReady]
       /\ UNCHANGED <<callVars, toServer>>
  ELSE LET id == ClientGenId(callSeq + 1) IN
       /\ callSeq' = callSeq + 1
       /\ pending' = pending \cup {id}
       /\ calls' = (id :> [method |-> method, arg |-> arg, handle |-> handle,
                           to |-> targetWindow]) @@ calls
       /\ promise' = (id :> [st |-> "pending", val |-> Undef, error |-> <<>>]) @@ promise
       /\ toServer' = [toServer EXCEPT ![targetWindow] =
                         Append(@, CallMsg(id, method, arg, handle, tgt))]
       /\ UNCHANGED lastLocal

\* The callables the root the user holds exposes: the ones installed on the
\* materialised root, or (lazy root) the ones functionSet has when it is read.
RootMethods == IF materializeStructure THEN initPromise.functions ELSE functionSet

\* The snapshot behind that root: the one the materialised root was cloned
\* from, or (lazy root) the one `values` holds when it is read.
RootValues == IF materializeStructure THEN initPromise.values ELSE values

\* makeRootFunctionProxy(method)(arg)
UserCallRoot ==
  /\ initPromise.st = "resolved"
  /\ callSeq < MaxCalls
  /\ \E method \in RootMethods : \E arg \in ArgsFor(method) :
       PostCall(method, arg, NoHandle, destinationOrigin)
  /\ UNCHANGED <<now, srvVars, toClient, rawCount, cOpts, initVars, bindVars, relVars>>

\* The handle references the user code holds: the values its calls resolved to.
HeldRefs ==
  {promise[i].val : i \in {j \in DOMAIN promise :
      promise[j].st = "resolved" /\ promise[j].val.k = "handle"}}

HandleMethods(ref) ==
  IF ref.kind = "function" THEN {<<>>} ELSE SeqToSet(ref.functions)

\* The user code can still reach the reference it was given for handle id:
\* the reference has not been garbage-collected.
Alive(id) == <<id, "root">> \in DOMAIN heap /\ heap[<<id, "root">>] = "live"

\* Reading a method under a nested object of a scoped lazy proxy goes
\* through createScopedProxy for the nested object (obj.nested in
\* obj.nested.fn(...)).
ReadsSubProxy(ref, method) ==
  ref.kind = "object" /\ ~ref.materialized /\ Len(method) > 1

\* Bound on the sub-proxies of one handle that get reclaimed: once one has
\* been, the user code reads no further nested object of that handle.
SubProxyFresh(id) == <<id, "sub">> \in DOMAIN heap => heap[<<id, "sub">>] = "live"

\* Variant without the released check at the top of a handle callable.
NeverReleased(handle) == FALSE

\* Whether a callable of handle `handle` short-circuits.
IsReleased(handle) == handle \in released

\* A callable of a handle: the function-kind callable, or a method of the
\* scoped lazy proxy or of the materialised tree.
UserCallHandle ==
  /\ \E ref \in HeldRefs : \E method \in HandleMethods(ref) : \E arg \in ArgsFor(method) :
       /\ Alive(ref.id)
       /\ IF ReadsSubProxy(ref, method)
          THEN SubProxyFresh(ref.id) /\ Track(ref.id, "sub")
          ELSE UNCHANGED <<activeHandles, heap>>
       /\ IF IsReleased(ref.id)
          THEN /\ lastLocal' = [handle |-> ref.id, error |-> HandleReleased(ref.id)]
               /\ UNCHANGED <<callVars, toServer>>
          ELSE /\ callSeq < MaxCalls
               /\ PostCall(method, arg, ref.id,
                           IF ref.materialized THEN "*" ELSE destinationOrigin)
  /\ UNCHANGED <<now, srvVars, toClient, rawCount, cOpts, initVars, bindVars,
                 released, pageLog, relCalled, releaseCount>>

\* What the user code holds after reading `keys` on the root it was given.
ReadRoot(keys) ==
  IF materializeStructure
  THEN LET tree == createMaterializedRoot(initPromise.values,
                                          SetToSeq(initPromise.functions))
       IN treeRead(tree, tree.root, keys)
  ELSE readLazy(values, functionSet, <<>>, keys)

\* () => this.releaseHandle(id), the value of __release.
ReleaseFn(id) == [k |-> "release", id |-> id]

\* createMaterializedHandle: the tree createMaterializedRoot builds, with
\* __release set on its root once the callables are installed.
createMaterializedHandle(handleId, vals, methods) ==
  LET tree == createMaterializedRoot(vals, methods) IN
  [tree EXCEPT !.nodes = Put(@, tree.root, K("__release"), ReleaseFn(handleId))]

\* What the user code holds after reading `keys` on an object handle:
\* __release is an own property of the materialised tree's root (which a
\* cycle leads back to) and is answered by every scoped proxy.
ReadHandle(ref, keys) ==
  IF ref.materialized
  THEN LET tree == createMaterializedHandle(ref.id, ref.values, ref.functions)
       IN treeRead(tree, tree.root, keys)
  ELSE IF keys[Len(keys)] = K("__release")
          /\ (Len(keys) = 1
              \/ readLazy(ref.values, SeqToSet(ref.functions), <<>>,
                          SubSeq(keys, 1, Len(keys) - 1)).k = "proxy")
  THEN ReleaseFn(ref.id)
  ELSE readLazy(ref.values, SeqToSet(ref.functions), <<>>, keys)

\* root.k1.k2...(arg), where the chain of reads ends on a callable.
UserCallAliasAt(keys) ==
  /\ initPromise.st = "resolved"
  /\ callSeq < MaxCalls
  /\ LET c == ReadRoot(keys) IN
       /\ c.k = "callable"
       /\ \E arg \in ArgsFor(c.method) :
            PostCall(c.method, arg, NoHandle, destinationOrigin)
  /\ UNCHANGED <<now, srvVars, toClient, rawCount, cOpts, initVars, bindVars, relVars>>

UserCallAlias == \E keys \in AliasReads(RootValues, RootMethods) : UserCallAliasAt(keys)

\* handle.k1.k2...(arg) on an object handle, likewise.
UserCallHandleAliasAt(ref, keys) ==
  /\ LET c == ReadHandle(ref, keys) IN
       /\ Alive(ref.id)
       /\ c.k = "callable"
       /\ IF ~ref.materialized /\ Len(keys) > 1
          THEN SubProxyFresh(ref.id) /\ Track(ref.id, "sub")
          ELSE UNCHANGED <<activeHandles, heap>>
       /\ \E arg \in ArgsFor(c.method) :
            IF IsReleased(ref.id)
            THEN /\ lastLocal' = [handle |-> ref.id, error |-> HandleReleased(ref.id)]
                 /\ UNCHANGED <<callVars, toServer>>
            ELSE /\ callSeq < MaxCalls
                 /\ PostCall(c.method, arg, ref.id,
                             IF ref.materialized THEN "*" ELSE destinationOrigin)
  /\ UNCHANGED <<now, srvVars, toClient, rawCount, cOpts, initVars, bindVars,
                 released, pageLog, relCalled, releaseCount>>

ObjectRefs == {r \in HeldRefs : r.kind = "object"}

\* handle.k for a nested object of a scoped lazy proxy, read without a call:
\* createScopedProxy for the nested object, which becomes the proxy the
\* handle's entry refers to.
UserReadHandle ==
  /\ \E ref \in ObjectRefs :
       /\ ~ref.materialized
       /\ Alive(ref.id)
       /\ SubProxyFresh(ref.id)
       /\ \E keys \in ObjectChains(ref.values, ref.values.root, 1) :
            keys # <<>> /\ ReadHandle(ref, keys).k = "proxy"
       /\ Track(ref.id, "sub")
  /\ UNCHANGED <<now, srvVars, chanVars, cOpts, initVars, bindVars, callVars,
                 released, pageLog, relCalled, releaseCount, lastLocal>>

UserCallHandleAlias ==
  \E ref \in ObjectRefs : \E keys \in AliasReads(ref.values, SeqToSet(ref.functions)) :
    UserCallHandleAliasAt(ref, keys)

\* The released set after releaseHandle(handleId).
ReleasedAfter(handleId) == released \cup {handleId}

\* releaseHandle(handleId)
releaseHandle(handleId) ==
  /\ released' = ReleasedAfter(handleId)
  /\ activeHandles' = MapDelete(activeHandles, handleId)
  /\ IF targetWindow = NoWindow
     THEN UNCHANGED toServer
     ELSE toServer' = [toServer EXCEPT ![targetWindow] =
                         Append(@, ReleaseMsg(handleId, destinationOrigin))]

\* ref.__release()
UserRelease ==
  /\ releaseCount < MaxReleases
  /\ releaseCount' = releaseCount + 1
  /\ \E ref \in HeldRefs :
       /\ Alive(ref.id)
       /\ relCalled' = relCalled \cup {ref.id}
       /\ releaseHandle(ref.id)
  /\ UNCHANGED <<now, srvVars, toClient, rawCount, cOpts, initVars, bindVars, callVars, lastLocal,
                 heap, pageLog>>

\* releaseHandle called for each id of the sequence `ids` in turn: what it
\* does to the released set and what it posts.
ReleaseEach(ids) ==
  /\ released' = released \cup SeqToSet(ids)
  /\ IF targetWindow = NoWindow
     THEN UNCHANGED toServer
     ELSE toServer' = [toServer EXCEPT ![targetWindow] =
                         @ \o [i \in 1..Len(ids) |->
                                 ReleaseMsg(ids[i], destinationOrigin)]]

IdsOf(table) == [i \in 1..Len(table) |-> table[i].id]

\* onShutdown: release every entry of activeHandles that is not in the
\* released set, then clear the table.
onShutdown ==
  /\ ReleaseEach(IdsOf(SelectSeq(activeHandles, LAMBDA e : e.id \notin released)))
  /\ activeHandles' = <<>>

\* The 'beforeunload' listener.
BeforeUnload ==
  /\ Quiet
  /\ Len(pageLog) < MaxPageEvents
  /\ pageLog' = Append(pageLog, [type |-> "beforeunload", persisted |-> FALSE])
  /\ onShutdown
  /\ UNCHANGED <<now, srvVars, toClient, rawCount, cOpts, initVars, bindVars, callVars,
                 heap, relCalled, releaseCount, lastLocal>>

\* Variant of the policy that treats 'nonPersisted' as 'all'.
AlwaysOnHide(persisted) == cOpts.releaseOnPageHide # "off"

\* Whether pagehideHandler calls onShutdown for an event with this flag.
ReleasesOnHide(persisted) ==
  \/ cOpts.releaseOnPageHide = "all"
  \/ cOpts.releaseOnPageHide = "nonPersisted" /\ ~persisted

\* pagehideHandler(ev)
pagehideHandler(persisted) ==
  IF cOpts.releaseOnPageHide = "off"
  THEN UNCHANGED <<released, toServer, activeHandles>>
  ELSE IF ReleasesOnHide(persisted)
       THEN onShutdown
       ELSE UNCHANGED <<released, toServer, activeHandles>>

\* The 'pagehide' listener, for an event with either value of persisted.
PageHide ==
  /\ Quiet
  /\ Len(pageLog) < MaxPageEvents
  /\ \E persisted \in BOOLEAN :
       /\ pageLog' = Append(pageLog, [type |-> "pagehide", persisted |-> persisted])
       /\ pagehideHandler(persisted)
  /\ UNCHANGED <<now, srvVars, toClient, rawCount, cOpts, initVars, bindVars, callVars,
                 heap, relCalled, releaseCount, lastLocal>>

\* The garbage collector reclaims a proxy: the reference the caller was
\* given (which the caller has dropped) or a sub-proxy.
Collect ==
  /\ \E o \in DOMAIN heap :
       /\ heap[o] = "live"
       /\ heap' = [heap EXCEPT ![o] = "collected"]
  /\ UNCHANGED <<now, srvVars, chanVars, cOpts, initVars, bindVars, callVars,
                 released, activeHandles, pageLog, relCalled, releaseCount, lastLocal>>

\* The FinalizationRegistry callback of a collected proxy: it runs once and
\* calls releaseHandle with the id the proxy was registered under.
Finalize ==
  /\ Quiet
  /\ cOpts.finalReg
  /\ \E o \in DOMAIN heap :
       /\ heap[o] = "collected"
       /\ heap' = [heap EXCEPT ![o] = "finalized"]
       /\ releaseHandle(o[1])
  /\ UNCHANGED <<now, srvVars, toClient, rawCount, cOpts, initVars, bindVars, callVars,
                 pageLog, relCalled, releaseCount, lastLocal>>

\* Whether the WeakRef of entry e derefs to nothing.
derefEmpty(e) == heap[<<e.id, e.ref>>] # "live"

\* One tick of the WeakRef sweeper (setInterval, armed at init where
\* WeakRef exists): entries already released are dropped, entries whose
\* proxy is gone are released, the others stay.
WeakRefSweep ==
  /\ Quiet
  /\ cOpts.weakRefAvailable
  /\ ReleaseEach(IdsOf(SelectSeq(activeHandles,
                                  LAMBDA e : e.id \notin released /\ derefEmpty(e))))
  /\ activeHandles' = SelectSeq(activeHandles,
                                 LAMBDA e : e.id \notin released /\ ~derefEmpty(e))
  /\ UNCHANGED <<now, srvVars, toClient, rawCount, cOpts, initVars, bindVars, callVars,
                 heap, pageLog, relCalled, releaseCount, lastLocal>>

\* The window that posted the READY at the head of the queue is gone by
\* the time the message is dispatched: the event's source is null.  (The
\* handlers of the other message types do not read the source.)
SourceGone(p) ==
  /\ toClient[p] # <<>>
  /\ Head(toClient[p]).type = "READY" /\ Head(toClient[p]).src # NoWindow
  /\ toClient' = [toClient EXCEPT ![p] = <<[Head(@) EXCEPT !.src = NoWindow]>> \o Tail(@)]
  /\ UNCHANGED <<now, srvVars, toServer, rawCount, cliVars>>

\* The READY at the head of the queue is dispatched as an event without an
\* origin (event.origin is empty, as in the events of the test windows).
OriginUnknown(p) ==
  /\ toClient[p] # <<>>
  /\ Head(toClient[p]).type = "READY" /\ Head(toClient[p]).origin # ""
  /\ toClient' = [toClient EXCEPT ![p] = <<[Head(@) EXCEPT !.origin = ""]>> \o Tail(@)]
  /\ UNCHANGED <<now, srvVars, toServer, rawCount, cliVars>>

\* ---------------------------------------------------------- page script

RawId(n) == "r" \o ToString(n)

\* The handle ids a hand-written message may name: the ones provider p has
\* issued so far and one it never issued.
RawHandles(p) == SeqToSet(idSeq[p]) \cup {"ghost"}

\* The messages a script of the parent page posts to provider p by hand.
RawMessages(p) ==
  LET id == RawId(rawCount + 1) IN
  {Envelope("GET", "parent", ParentOrigin, "*")}
    \cup {CallMsg(id, c[1], c[2], NoHandle, "*") :
            c \in { <<K("testNested"), 1>>, <<K("mkAdder"), 2>>, <<K("slow"), 1>>,
                    <<K("make"), 6>>,
                    <<<<>>, 1>>, <<K("nope"), 1>>, <<<<"a", ".", "x">>, 1>>,
                    <<<<"nested", ".", "test">>, 1>>, <<K("toString"), 1>>,
                    <<<<"bad", ".", "x">>, 1>> }}
    \cup {CallMsg(id, method, 3, h, "*") :
            method \in {<<>>, K("test"), K("nope"), K("fail")}, h \in RawHandles(p)}
    \cup {CallMsg(id, method, 1, h, "*") :
            method \in {K("fail"), K("slow")}, h \in RawHandles(p)}
    \cup {ReleaseMsg(h, "*") : h \in RawHandles(p) \cup {NoHandle}}

RawSend(p) ==
  /\ listening[p]
  /\ rawCount < MaxRaw
  /\ rawCount' = rawCount + 1
  /\ \E m \in RawMessages(p) : toServer' = [toServer EXCEPT ![p] = Append(@, m)]
  /\ UNCHANGED <<now, srvVars, toClient, cliVars>>

\* ------------------------------------------------------------ specification

Next ==
  \/ \E p \in Providers : ServerCreate(p)
  \/ \E p \in Providers : ServerOnCall(p)
  \/ \E p \in Providers : ServerSettle(p)
  \/ \E p \in Providers : ServerOnRelease(p)
  \/ \E p \in Providers : Sweep(p)
  \/ Tick
  \/ \E p \in Providers : ClientOnReady(p)
  \/ \E p \in Providers : ClientOnResult(p)
  \/ \E p \in Providers : ClientOnError(p)
  \/ \E p \in Providers : ClientOnInitError(p)
  \/ \E p \in Providers : ClientIgnore(p)
  \/ InitTimeout
  \/ UserCallRoot
  \/ UserCallHandle
  \/ UserReadHandle
  \/ UserRelease

Spec == Init /\ [][Next]_vars

\* Provider P1 alone, constructed (its broadcast was posted), serving
\* whatever a page script posts to it; from then on the parent's postMessage
\* throws for the message types `faults`.
StartedWith(faults) ==
  /\ now = 0
  /\ ignored = {}
  /\ listening = [p \in Providers |-> p = "P1"]
  /\ handles = [p \in Providers |-> NoFn]
  /\ handleMeta = [p \in Providers |-> NoFn]
  /\ idSeq = [p \in Providers |-> <<>>]
  /\ running = [p \in Providers |-> {}]
  /\ invoked = {}
  /\ broadcast = [p \in Providers |-> IF p = "P1" THEN "sent" ELSE "none"]
  /\ unpostable = [p \in Providers |-> IF p = "P1" THEN faults ELSE {}]
  /\ built = [p \in Providers |-> IF p = "P1" THEN Build(p) ELSE NotBuilt]
  /\ rawCount = 0
  /\ toServer = [p \in Providers |-> <<>>]
  /\ toClient = [p \in Providers |-> IF p = "P1" THEN <<ReadyMsg(p, "*")>> ELSE <<>>]
  /\ listenerOn = TRUE
  /\ timerArmed = TRUE
  /\ initPromise = [st |-> "pending", error |-> <<>>, functions |-> {},
                    values |-> EmptyValues]
  /\ targetWindow = NoWindow
  /\ serverOrigin = ""
  /\ values = EmptyValues
  /\ functionSet = {}
  /\ pending = {}
  /\ released = {}
  /\ activeHandles = <<>>
  /\ heap = NoFn
  /\ pageLog = <<>>
  /\ callSeq = 0
  /\ calls = NoFn
  /\ promise = NoFn
  /\ lastLocal = NoLocal
  /\ relCalled = {}
  /\ releaseCount = 0

Started == StartedWith({})

ProviderAlone == cOpts \in {o \in ClientOptionSets : ~o.hideStructure} /\ Started

InitProvider == engine \in Engines /\ sOpts \in ServerOptionSets /\ ProviderAlone

NextProvider ==
  \/ \E p \in Providers : RawSend(p)
  \/ \E p \in Providers : ServerOnGet(p)
  \/ \E p \in Providers : ServerOnCall(p)
  \/ \E p \in Providers : ServerSettle(p)
  \/ \E p \in Providers : ServerOnRelease(p)
  \/ \E p \in Providers : Sweep(p)
  \/ Tick

SpecProvider == InitProvider /\ [][NextProvider]_vars

\* The same provider, posting to a parent window whose postMessage has
\* come to throw for some message types (as the double of the tests does
\* for a payload that cannot be cloned).
PostFaults == {{}, {"READY"}, {"RESULT"}, {"RESULT", "ERROR"}}

InitPostFailure ==
  /\ engine = "node20"
  /\ sOpts \in ServerOptionSets
  /\ cOpts \in {o \in ClientOptionSets : ~o.hideStructure}
  /\ \E faults \in PostFaults : StartedWith(faults)

SpecPostFailure == InitPostFailure /\ [][NextProvider]_vars

\* The same provider created with each combination of a positive, zero or
\* negative handleTtlMs and sweepIntervalMs.
SweeperOptionSets ==
  { [handleTtlMs |-> t, sweepIntervalMs |-> w] : t \in {-1, 0, 1}, w \in {-1, 0, 1} }

InitSweeperOptions == engine = "node20" /\ sOpts \in SweeperOptionSets /\ ProviderAlone

SpecSweeperOptions == InitSweeperOptions /\ [][NextProvider]_vars

\* A consumer created in a host with these GC facilities, with this
\* page-hide policy, in lazy or materialised mode.
LifecycleOptions(weakRef, finalReg, policy, lazy) ==
  [hideStructure |-> lazy, hasTargetOrigin |-> FALSE, targetOrigin |-> "",
   hasAllowedOrigins |-> FALSE, allowedFn |-> FALSE, allowedOrigins |-> {},
   throwsOn |-> {}, timeout |-> 1,
   releaseOnPageHide |-> policy,
   weakRefAvailable |-> weakRef, finalReg |-> finalReg]

\* In a host with both GC facilities: the default page-hide policy in each
\* mode and the other two policies with materialised handles; the default
\* policy in each mode in a host with WeakRef only, and with materialised
\* handles in a host with neither.
LifecycleOptionSets ==
  { LifecycleOptions(TRUE, TRUE, "nonPersisted", h) : h \in BOOLEAN }
    \cup { LifecycleOptions(TRUE, TRUE, r, FALSE) : r \in {"all", "off"} }
    \cup { LifecycleOptions(TRUE, FALSE, "nonPersisted", h) : h \in BOOLEAN }
    \cup { LifecycleOptions(FALSE, FALSE, "nonPersisted", FALSE) }

InitLifecycle ==
  /\ engine = "node20"
  /\ sOpts \in ServerOptionSets
  /\ cOpts \in LifecycleOptionSets
  /\ Started

NextLifecycle ==
  \/ \E p \in Providers : ServerOnCall(p)
  \/ \E p \in Providers : ServerSettle(p)
  \/ \E p \in Providers : ServerOnRelease(p)
  \/ \E p \in Providers : SourceGone(p)
  \/ \E p \in Providers : ClientOnReady(p)
  \/ \E p \in Providers : ClientOnResult(p)
  \/ \E p \in Providers : ClientOnError(p)
  \/ UserCallRoot
  \/ UserCallHandle
  \/ UserReadHandle
  \/ UserRelease
  \/ Collect
  \/ Finalize
  \/ WeakRefSweep
  \/ BeforeUnload
  \/ PageHide

SpecLifecycle == InitLifecycle /\ [][NextLifecycle]_vars

\* Messages that are not for the receiving peer: the well-formed message m
\* with another discriminator, with another channel name, with a type that
\* only the other peer handles, and with a type nobody handles.
Foreign(m, otherPeerType) ==
  { [m EXCEPT !.rpc = "other-rpc"], [m EXCEPT !.name = "other-channel"],
    [m EXCEPT !.type = otherPeerType], [m EXCEPT !.type = "PING"] }

\* What a script may post to provider p: altered copies of a CALL of a
\* function that returns a handle, and of a RELEASE_HANDLE of each handle
\* in the table.
NoiseForServer(p) ==
  UNION { Foreign(m, "RESULT") :
            m \in {CallMsg(RawId(rawCount + 1), K("mkAdder"), 2, NoHandle, "*")}
                    \cup {ReleaseMsg(h, "*") : h \in DOMAIN handles[p]} }

\* What may reach the consumer from the window of p: altered copies of
\* the READY of p and of a RESULT for each pending call.
NoiseForClient(p) ==
  UNION { Foreign(m, "CALL") :
            m \in {ReadyMsg(p, "*")}
                    \cup {ResultMsg(p, id, Prim(0)) : id \in pending} }

\* Bound: the scripts post one foreign message at a time.
IsForeign(m, types) ==
  m.rpc # "iframe-rpc" \/ m.name # ChannelName \/ m.type \notin types

NoNoiseInFlight ==
  \A p \in Providers :
    /\ \A i \in 1..Len(toServer[p]) : ~IsForeign(toServer[p][i], ServerTypes)
    /\ \A i \in 1..Len(toClient[p]) : ~IsForeign(toClient[p][i], ClientTypes)

NoiseToServer(p) ==
  /\ listening[p]
  /\ NoNoiseInFlight
  /\ rawCount < MaxNoise
  /\ rawCount' = rawCount + 1
  /\ \E m \in NoiseForServer(p) : toServer' = [toServer EXCEPT ![p] = Append(@, m)]
  /\ UNCHANGED <<now, srvVars, toClient, cliVars>>

NoiseToClient(p) ==
  /\ NoNoiseInFlight
  /\ rawCount < MaxNoise
  /\ rawCount' = rawCount + 1
  /\ \E m \in NoiseForClient(p) : toClient' = [toClient EXCEPT ![p] = Append(@, m)]
  /\ UNCHANGED <<now, srvVars, toServer, cliVars>>

\* One provider, the consumer in either mode, and scripts posting foreign
\* messages to both.
InitNoise ==
  /\ engine = "node20"
  /\ sOpts \in ServerOptionSets
  /\ cOpts \in ClientOptionSets
  /\ Started

NextNoise ==
  \/ \E p \in Providers : NoiseToServer(p)
  \/ \E p \in Providers : NoiseToClient(p)
  \/ \E p \in Providers : ServerIgnore(p)
  \/ \E p \in Providers : ServerOnCall(p)
  \/ \E p \in Providers : ServerSettle(p)
  \/ \E p \in Providers : ServerOnRelease(p)
  \/ \E p \in Providers : ClientIgnore(p)
  \/ \E p \in Providers : ClientOnReady(p)
  \/ \E p \in Providers : ClientOnResult(p)
  \/ \E p \in Providers : ClientOnError(p)
  \/ UserCallRoot
  \/ UserCallHandle
  \/ UserRelease

SpecNoise == InitNoise /\ [][NextNoise]_vars

\* The two providers and the consumer, with READY messages whose source
\* window may be gone when they are dispatched.
NextDetached ==
  \/ Next
  \/ \E p \in Providers : SourceGone(p)

SpecDetached == Init /\ [][NextDetached]_vars

\* A consumer created with each kind of allowedOrigins: absent, a list, a
\* predicate that returns false for the other origins, and a predicate that
\* throws for them.  Only the origin of P1 is allowed.
OriginOptions(has, fn, throwing) ==
  [hideStructure |-> FALSE, hasTargetOrigin |-> FALSE, targetOrigin |-> "",
   hasAllowedOrigins |-> has, allowedFn |-> fn,
   allowedOrigins |-> IF has THEN {Origin("P1")} ELSE {},
   throwsOn |-> IF throwing THEN {Origin("P2")} ELSE {}, timeout |-> 1,
   releaseOnPageHide |-> "nonPersisted",
   weakRefAvailable |-> TRUE, finalReg |-> TRUE]

OriginOptionSets ==
  { OriginOptions(FALSE, FALSE, FALSE), OriginOptions(TRUE, FALSE, FALSE),
    OriginOptions(TRUE, TRUE, FALSE), OriginOptions(TRUE, TRUE, TRUE) }

\* What a script in the window of p may post to the parent: a RESULT and
\* an ERROR for a call that is pending.
Replies(p) ==
  {ResultMsg(p, id, Prim(0)) : id \in pending}
    \cup {ErrorMsg(p, id, K("forged")) : id \in pending}

\* A window other than the one the consumer is bound to posts such a reply
\* (bound: when nothing else it posted is waiting to be dispatched).
ReplyFrom(p) ==
  /\ p # targetWindow /\ toClient[p] = <<>>
  /\ rawCount < MaxNoise
  /\ rawCount' = rawCount + 1
  /\ \E m \in Replies(p) : toClient' = [toClient EXCEPT ![p] = Append(@, m)]
  /\ UNCHANGED <<now, srvVars, toServer, cliVars>>

InitOrigins ==
  /\ engine = "node20"
  /\ sOpts \in ServerOptionSets
  /\ cOpts \in OriginOptionSets
  /\ Created

NextOrigins ==
  \/ \E p \in Providers : ServerCreate(p)
  \/ \E p \in Providers : ServerOnCall(p)
  \/ \E p \in Providers : ServerSettle(p)
  \/ \E p \in Providers : ReplyFrom(p)
  \/ \E p \in Providers : ClientOnReady(p)
  \/ \E p \in Providers : ClientOnResult(p)
  \/ \E p \in Providers : ClientOnError(p)
  \/ \E p \in Providers : ClientOnInitError(p)
  \/ \E p \in Providers : ClientIgnore(p)
  \/ UserCallRoot

SpecOrigins == InitOrigins /\ [][NextOrigins]_vars

\* An origin the parent page is not served from.
TrustedOrigin == "https://trusted"

\* Provider options with the origin options their declared type has:
\* allowedOrigins absent or a list, targetOrigin absent or set.  The
\* provider reads neither option.
ServerOriginOptions(allowed, target) ==
  [handleTtlMs |-> 1, sweepIntervalMs |-> 1,
   hasAllowedOrigins |-> allowed # {}, allowedOrigins |-> allowed,
   hasTargetOrigin |-> target # "", targetOrigin |-> target]

\* No origin option; the parent's origin as the only allowed origin and as
\* target origin; another origin as the only allowed origin.
ServerOriginOptionSets ==
  { ServerOriginOptions({}, ""),
    ServerOriginOptions({ParentOrigin}, ParentOrigin),
    ServerOriginOptions({TrustedOrigin}, ParentOrigin) }

InitServerOrigins ==
  /\ engine = "node20"
  /\ sOpts \in ServerOriginOptionSets
  /\ cOpts \in {o \in ClientOptionSets : ~o.hideStructure}
  /\ Created

\* Provider P1 is created and serves what a page script posts to it.
NextServerOrigins ==
  \/ ServerCreate("P1")
  \/ RawSend("P1")
  \/ ServerOnGet("P1")
  \/ ServerOnCall("P1")
  \/ ServerSettle("P1")
  \/ ServerOnRelease("P1")

SpecServerOrigins == InitServerOrigins /\ [][NextServerOrigins]_vars

\* A consumer in either mode, with and without options.targetOrigin.
TargetOptionSets ==
  { [o EXCEPT !.hasTargetOrigin = t # "", !.targetOrigin = t] :
      o \in ClientOptionSets, t \in {"", Origin("P1")} }

InitTarget ==
  /\ engine \in Engines
  /\ sOpts \in ServerOptionSets
  /\ cOpts \in TargetOptionSets
  /\ Started

\* The consumer of provider P1, whose READY may arrive without an origin.
NextTarget ==
  \/ \E p \in Providers : OriginUnknown(p)
  \/ \E p \in Providers : ServerOnCall(p)
  \/ \E p \in Providers : ServerSettle(p)
  \/ \E p \in Providers : ServerOnRelease(p)
  \/ \E p \in Providers : ClientOnReady(p)
  \/ \E p \in Providers : ClientOnResult(p)
  \/ \E p \in Providers : ClientOnError(p)
  \/ UserCallRoot
  \/ UserCallHandle
  \/ UserRelease

SpecTarget == InitTarget /\ [][NextTarget]_vars

\* A consumer created with a handshake timeout of zero and with a negative
\* one, and providers created right after it or later.
TimeoutOptionSets ==
  { [o EXCEPT !.timeout = t] : o \in ClientOptionSets, t \in {0, -1} }

InitTimeoutOptions ==
  /\ engine = "node20"
  /\ sOpts \in ServerOptionSets
  /\ cOpts \in TimeoutOptionSets
  /\ Created

NextTimeout ==
  \/ \E p \in Providers : ServerCreate(p)
  \/ \E p \in Providers : ClientOnReady(p)
  \/ \E p \in Providers : ClientOnInitError(p)
  \/ \E p \in Providers : ClientIgnore(p)
  \/ InitTimeout
  \/ Tick
  \/ UserCallRoot

SpecTimeout == InitTimeoutOptions /\ [][NextTimeout]_vars

\* Provider P1 exposing the API with a cycle and a shared object, and a
\* consumer in either mode that reads functions through every chain of
\* nested objects.
AliasOptionSets ==
  { [handleTtlMs |-> 1, sweepIntervalMs |-> 1, api |-> "graph"] }

InitAlias ==
  /\ engine = "node20"
  /\ sOpts \in AliasOptionSets
  /\ cOpts \in ClientOptionSets
  /\ Started

NextAlias ==
  \/ \E p \in Providers : ServerOnCall(p)
  \/ \E p \in Providers : ServerSettle(p)
  \/ \E p \in Providers : ServerOnRelease(p)
  \/ \E p \in Providers : Sweep(p)
  \/ Tick
  \/ \E p \in Providers : ClientOnReady(p)
  \/ \E p \in Providers : ClientOnResult(p)
  \/ \E p \in Providers : ClientOnError(p)
  \/ UserCallAlias
  \/ UserCallHandleAlias
  \/ UserRelease

SpecAlias == InitAlias /\ [][NextAlias]_vars

\* The object handles provider p has advertised: the handle payloads of its
\* RESULT messages.
HandlePayloads(p) ==
  { toClient[p][i].result : i \in { j \in 1..Len(toClient[p]) :
      /\ toClient[p][j].type = "RESULT"
      /\ IsHandlePayload(toClient[p][j].result)
      /\ toClient[p][j].result.kind = "object" } }

\* A page script posts a CALL for a path the provider advertised: one of
\* the function paths of its READY, or one of an object handle's payload
\* on that handle.
CallAdvertised(p) ==
  /\ listening[p]
  /\ rawCount < MaxRaw
  /\ rawCount' = rawCount + 1
  /\ \/ \E method \in SeqToSet(built[p].functions) : \E arg \in ArgsFor(method) :
          toServer' = [toServer EXCEPT ![p] =
            Append(@, CallMsg(RawId(rawCount + 1), method, arg, NoHandle, "*"))]
     \/ \E h \in HandlePayloads(p) : \E method \in SeqToSet(h.functions) :
          toServer' = [toServer EXCEPT ![p] =
            Append(@, CallMsg(RawId(rawCount + 1), method, 1, h.id, "*"))]
  /\ UNCHANGED <<now, srvVars, toClient, cliVars>>

\* Provider P1 alone, exposing the API with a cycle and a shared object, or
\* one with an empty key and keys that contain a dot.
PathOptionSets ==
  { [handleTtlMs |-> 1, sweepIntervalMs |-> 1, api |-> a] : a \in {"graph", "keys"} }

InitPaths == engine = "node20" /\ sOpts \in PathOptionSets /\ ProviderAlone

NextPaths ==
  \/ \E p \in Providers : CallAdvertised(p)
  \/ \E p \in Providers : ServerOnCall(p)
  \/ \E p \in Providers : ServerSettle(p)
  \/ \E p \in Providers : Sweep(p)
  \/ Tick

SpecPaths == InitPaths /\ [][NextPaths]_vars

\* ------------------------------------------------------------------ claims

\* The invocation the provider made for CALL id, if it made one.
InvokedFor(id) == {r \in invoked : r.id = id}

\* Whether a settled promise carries the outcome b of an invocation.
OutcomeMatches(pr, b) ==
  IF ~b.ok
  THEN pr.st = "rejected" /\ pr.error = serializeError(b.val)
  ELSE /\ pr.st = "resolved"
       /\ IF b.val.k = "fn" THEN pr.val.k = "handle" /\ pr.val.kind = "function"
          ELSE IF isObject(b.val) /\ collectFunctionPaths(b.val) # <<>>
          THEN /\ pr.val.k = "handle" /\ pr.val.kind = "object"
               /\ pr.val.functions = collectFunctionPaths(b.val)
          ELSE pr.val = b.val

\* C1: whatever the order in which the provider's functions complete, a
\* settled promise carries the outcome of the invocation made for its own
\* CALL (the function applied to the arguments that CALL was sent with), or
\* the lookup error of its own CALL when nothing was invoked for it; never
\* the payload of another call.
C1_OwnOutcome ==
  \A id \in DOMAIN promise :
    promise[id].st # "pending" =>
      IF InvokedFor(id) # {}
      THEN \A r \in InvokedFor(id) :
             /\ r.arg = calls[id].arg /\ r.p = calls[id].to
             /\ OutcomeMatches(promise[id], Behave(r.fn, r.arg))
      ELSE /\ promise[id].st = "rejected"
           /\ promise[id].error \in
                {MethodNotFound(calls[id].method), HandleNotFound(calls[id].handle)}

\* C1 witness: two slow calls with different arguments are in flight and the
\* second is resolved while the first is still pending.
C1_Witness ==
  /\ {"c1", "c2"} \subseteq DOMAIN calls
  /\ calls["c1"].method = K("slow") /\ calls["c2"].method = K("slow")
  /\ calls["c1"].arg # calls["c2"].arg /\ calls["c1"].to = calls["c2"].to
  /\ "c1" \in pending
  /\ promise["c2"].st = "resolved" /\ promise["c2"].val = Prim(calls["c2"].arg * 10)

\* The CALLs carrying handle h among the messages posted to provider p.
CallsOn(q, h) == {i \in 1..Len(q) : q[i].type = "CALL" /\ q[i].handle = h}

\* C2: once __release was called on a reference of handle h, no step adds a
\* pending entry or a CALL for h (whatever kind of reference the callable
\* comes from), and an invocation on h is rejected locally with
\* "Handle <h> released" leaving the pending table and the wire untouched.
C2_ReleasedShortCircuit ==
  [][\A h \in relCalled :
       /\ \A id \in DOMAIN calls' \ DOMAIN calls : calls'[id].handle # h
       /\ \A id \in pending' \ pending : calls'[id].handle # h
       /\ \A p \in Providers :
            Cardinality(CallsOn(toServer'[p], h)) <= Cardinality(CallsOn(toServer[p], h))
       /\ (lastLocal' # lastLocal /\ lastLocal'.handle = h) =>
            /\ lastLocal'.error = <<"Handle ", h, " released">>
            /\ UNCHANGED <<pending, calls, promise, toServer>>]_vars

\* C2 witness: a held reference was released and a later invocation on it
\* (here the materialised tree of an object handle) was rejected locally.
C2_Witness ==
  \E ref \in HeldRefs :
    /\ ref.id \in relCalled
    /\ ref.kind = "object" /\ ref.materialized
    /\ lastLocal = [handle |-> ref.id, error |-> HandleReleased(ref.id)]

\* The step in which the consumer's handler takes a `type` message of p.
Handles(p, type) ==
  /\ listenerOn
  /\ toClient[p] # <<>> /\ Head(toClient[p]).type = type
  /\ isOriginAllowed(Head(toClient[p]).origin)
  /\ toClient'[p] = Tail(toClient[p])

\* C3: the init promise is decided once, by the first of READY (resolve,
\* timer cancelled), INIT_ERROR (reject with its text, listener removed) and
\* timer expiry (reject with the timeout text, listener removed); nothing
\* changes it afterwards, a removed listener stays removed and never binds,
\* and a resolved promise has no timer left to reject it.
C3_InitDecidedOnce ==
  /\ [][initPromise.st # "pending" => initPromise' = initPromise]_vars
  /\ [][(initPromise.st = "pending" /\ initPromise' # initPromise) =>
         \/ \E p \in Providers :
              /\ Handles(p, "READY")
              /\ initPromise'.st = "resolved" /\ ~timerArmed' /\ targetWindow' = p
         \/ \E p \in Providers :
              /\ Handles(p, "INIT_ERROR")
              /\ initPromise'.st = "rejected"
              /\ initPromise'.error = Head(toClient[p]).error
              /\ ~listenerOn' /\ ~timerArmed'
         \/ /\ timerArmed /\ UNCHANGED toClient
            /\ initPromise'.st = "rejected"
            /\ initPromise'.error =
                 <<"iframe-rpc initialization timeout for name: ", ChannelName>>
            /\ ~listenerOn']_vars
  /\ [][~listenerOn => (~listenerOn' /\ UNCHANGED <<bindVars, initPromise>>)]_vars
  /\ [](initPromise.st = "resolved" => ~timerArmed)

\* C3 witness: the timer expired first; the READY a provider broadcast was
\* then delivered and dropped, leaving the consumer unbound and rejected.
C3_Witness ==
  /\ initPromise.st = "rejected" /\ initPromise.error = InitTimeoutError
  /\ \E p \in Providers : broadcast[p] = "sent" /\ toClient[p] = <<>>
  /\ targetWindow = NoWindow /\ ~listenerOn

\* C4 (as the spec states it): once bound, a further READY changes neither
\* the target window, the provider origin, the snapshot nor the function set.
C4_FirstReadyWins ==
  [][targetWindow # NoWindow => UNCHANGED bindVars]_vars

\* C5: the listener is installed whatever the initial broadcast did; a
\* failed READY send posts INIT_ERROR with the stringified cause, which a
\* waiting consumer rejects with; when the INIT_ERROR send fails too nothing
\* is posted, and a consumer that was sent nothing else stays unbound and
\* rejects only with the timeout text.
C5_BroadcastFailure ==
  /\ [](\A p \in Providers : broadcast[p] # "none" => listening[p])
  /\ [][\A p \in Providers : broadcast'[p] # broadcast[p] =>
         CASE broadcast'[p] = "readyThrows" ->
                /\ Len(toClient'[p]) = Len(toClient[p]) + 1
                /\ toClient'[p][Len(toClient'[p])].type = "INIT_ERROR"
                /\ toClient'[p][Len(toClient'[p])].error =
                     K("DataCloneError: Uncloneable payload")
           [] broadcast'[p] = "bothThrow" -> toClient'[p] = toClient[p]
           [] OTHER -> TRUE]_vars
  /\ [][\A p \in Providers :
         (Handles(p, "INIT_ERROR") /\ initPromise.st = "pending") =>
           /\ initPromise'.st = "rejected"
           /\ initPromise'.error = Head(toClient[p]).error]_vars
  /\ []((\A p \in Providers : broadcast[p] \in {"none", "bothThrow"}) =>
         /\ targetWindow = NoWindow
         /\ \A p \in Providers : toClient[p] = <<>>
         /\ \/ initPromise.st = "pending"
            \/ initPromise.st = "rejected" /\ initPromise.error = InitTimeoutError)

\* C5 witness: one provider failed both sends, the other only the READY
\* send; both listen, and the consumer was rejected with the cause's text.
C5_Witness ==
  /\ broadcast["P1"] = "bothThrow" /\ broadcast["P2"] = "readyThrows"
  /\ listening["P1"] /\ listening["P2"]
  /\ initPromise.st = "rejected"
  /\ initPromise.error = K("DataCloneError: Uncloneable payload")

\* C5 witness of the swallowed failure: every provider failed both sends and
\* the consumer was rejected by its timer.
C5_TimeoutWitness ==
  /\ \A p \in Providers : broadcast[p] = "bothThrow" /\ listening[p]
  /\ initPromise.st = "rejected" /\ initPromise.error = InitTimeoutError

\* The text of the cause `fail` throws or rejects with, as it goes on the wire.
FailText(arg) ==
  CASE arg = 1 -> <<"boom">>
    [] arg = 2 -> <<"\"", "oops", "\"">>
    [] OTHER -> <<"[object Object]">>

\* The step in which provider p posts a message of this type.
Posts(p, type) ==
  /\ Len(toClient'[p]) = Len(toClient[p]) + 1
  /\ toClient'[p][Len(toClient'[p])].type = type

\* C6: the reply to a CALL whose function threw or rejected is an ERROR with
\* that call's id and the stringified cause, and the caller's promise is
\* rejected with it; the step that posts an ERROR creates and removes no
\* handle and leaves the listener installed; the consumer's ERROR handler
\* settles the pending promise of that id and no other.
C6_FailureReported ==
  /\ [](\A r \in invoked : r.fn.n = "fail" =>
          /\ \A i \in 1..Len(toClient[r.p]) :
               LET m == toClient[r.p][i] IN
               (m.type \in {"RESULT", "ERROR"} /\ m.id = r.id) =>
                 (m.type = "ERROR" /\ m.error = FailText(r.arg))
          /\ (r.id \in DOMAIN promise /\ promise[r.id].st # "pending") =>
               promise[r.id] = [st |-> "rejected", val |-> Undef, error |-> FailText(r.arg)])
  /\ [][\A p \in Providers : Posts(p, "ERROR") =>
          /\ handles'[p] = handles[p]
          /\ DOMAIN handleMeta'[p] = DOMAIN handleMeta[p]
          /\ idSeq'[p] = idSeq[p]
          /\ listening'[p]]_vars
  /\ [][\A p \in Providers : Handles(p, "ERROR") =>
          LET m == Head(toClient[p]) IN
          /\ \A id \in DOMAIN promise : id # m.id => promise'[id] = promise[id]
          /\ pending' = pending \ {m.id}
          /\ m.id \in pending =>
               promise'[m.id] = [st |-> "rejected", val |-> Undef, error |-> m.error]]_vars

\* C6 witness: the first call threw and was rejected with the stringified
\* cause; the second call, served by the same provider after it, resolved.
C6_Witness ==
  /\ {"c1", "c2"} \subseteq DOMAIN calls
  /\ calls["c1"].method = K("fail") /\ calls["c1"].arg = 2
  /\ promise["c1"] = [st |-> "rejected", val |-> Undef, error |-> <<"\"", "oops", "\"">>]
  /\ calls["c2"].to = calls["c1"].to
  /\ promise["c2"].st = "resolved"

\* The step in which provider p's listener takes the CALL at the head of its
\* queue.
Serves(p) ==
  /\ listening[p]
  /\ toServer[p] # <<>> /\ Head(toServer[p]).type = "CALL"
  /\ toServer'[p] = Tail(toServer[p])

\* The step in which provider p posts exactly the ERROR `text` for call id.
RepliesError(p, id, text) ==
  /\ Len(toClient'[p]) = Len(toClient[p]) + 1
  /\ SubSeq(toClient'[p], 1, Len(toClient[p])) = toClient[p]
  /\ LET e == toClient'[p][Len(toClient'[p])] IN
       e.type = "ERROR" /\ e.id = id /\ e.error = text

\* C7: a CALL naming a handle that is not in the provider's table is
\* answered with ERROR "Handle <id> not found" for its id; nothing is
\* invoked or started and the handle tables stay as they are.
C7_MissingHandle ==
  [][\A p \in Providers :
       (Serves(p) /\ Head(toServer[p]).handle # NoHandle
          /\ Head(toServer[p]).handle \notin DOMAIN handles[p]) =>
         /\ RepliesError(p, Head(toServer[p]).id,
                         <<"Handle ", Head(toServer[p]).handle, " not found">>)
         /\ UNCHANGED <<invoked, running, handles, handleMeta, idSeq>>]_vars

\* C7 witness: with only three messages posted (one creating the only
\* handle, one CALL on it, one CALL on an id never issued) both CALLs were
\* answered "not found": no RELEASE_HANDLE was sent, so the handle was
\* evicted by the TTL.
C7_Witness ==
  /\ rawCount = 3 /\ Len(idSeq["P1"]) = 1
  /\ \A h \in {idSeq["P1"][1], "ghost"} :
       \E i \in 1..Len(toClient["P1"]) :
         /\ toClient["P1"][i].type = "ERROR"
         /\ toClient["P1"][i].error = <<"Handle ", h, " not found">>

\* Whether the method of a CALL fails to resolve to a callable in ctx.
NotCallable(ctx, method) ==
  LET fn == ResolveMethod(ctx, method) IN fn = Thrown \/ fn.k # "fn"

\* C8 (as the spec states it): a CALL whose context exists and whose method
\* does not resolve to a callable in it is answered with ERROR
\* "Method <path> not found" ("<root>" for the empty method), and nothing
\* is invoked.
C8_MethodNotFound ==
  [][\A p \in Providers :
       LET m == Head(toServer[p]) IN
       (Serves(p) /\ (m.handle = NoHandle \/ m.handle \in DOMAIN handles[p])
          /\ NotCallable(CallContext(p, m.handle), m.method)) =>
         /\ RepliesError(p, m.id,
              <<"Method ">> \o (IF m.method = <<>> THEN <<"<root>">> ELSE m.method)
                \o <<" not found">>)
         /\ UNCHANGED <<invoked, running>>]_vars

\* C8, the part that holds: the same, for a CALL whose method resolution
\* ends with a value that is not a function (no getter on the path throws).
C8_ResolvedNotCallable ==
  [][\A p \in Providers :
       LET m == Head(toServer[p]) IN
       (Serves(p) /\ (m.handle = NoHandle \/ m.handle \in DOMAIN handles[p])
          /\ ResolveMethod(CallContext(p, m.handle), m.method) # Thrown
          /\ ResolveMethod(CallContext(p, m.handle), m.method).k # "fn") =>
         /\ RepliesError(p, m.id,
              <<"Method ">> \o (IF m.method = <<>> THEN <<"<root>">> ELSE m.method)
                \o <<" not found">>)
         /\ UNCHANGED <<invoked, running>>]_vars

\* Whether a value has a function among its reachable members, at most
\* `depth` objects down: own enumerable properties, own accessors, and what
\* the prototype chain below the universal root prototype gives (accessors
\* and methods, `constructor` excepted); pass-through built-ins are leaves
\* and a member whose getter throws is not read.
RECURSIVE ContainsFunction(_, _)
ContainsFunction(r, depth) ==
  /\ r.k = "obj"
  /\ \E i \in 1..Len(Props(r)) :
       LET d == Props(r)[i] IN
       /\ ~d.throws
       /\ IF d.own THEN d.enum \/ d.get ELSE d.key # <<"constructor">>
       /\ \/ d.val.k = "fn"
          \/ depth > 0 /\ ContainsFunction(d.val, depth - 1)

\* The value the function invoked for CALL id of provider p returned.
ReturnedFor(p, id) ==
  LET r == CHOOSE x \in invoked' : x.p = p /\ x.id = id IN Behave(r.fn, r.arg).val

\* C9 (as the spec states it): the step that posts a RESULT for returned
\* value r registers a new handle (an id never issued before, lastUsed =
\* now, the value stored, every other handle as it was) and posts a handle
\* payload (kind function; or kind object with r's snapshot and function
\* paths) exactly when r is a function, or an object that is not a
\* pass-through built-in and has a function among its reachable members;
\* otherwise it posts r itself and leaves the handle tables alone. No step
\* registers more than one handle.
C9_HandleIffFunctions ==
  [][\A p \in Providers :
       /\ Cardinality(DOMAIN handles'[p] \ DOMAIN handles[p]) <= 1
       /\ Posts(p, "RESULT") =>
            LET e == toClient'[p][Len(toClient'[p])]
                r == ReturnedFor(p, e.id)
            IN IF r.k = "fn" \/ ContainsFunction(r, MaxDepth)
               THEN /\ e.result.k = "handle"
                    /\ e.result.id \notin SeqToSet(idSeq[p])
                    /\ DOMAIN handles'[p] = DOMAIN handles[p] \cup {e.result.id}
                    /\ handles'[p][e.result.id] = r
                    /\ handleMeta'[p][e.result.id] = now
                    /\ \A h \in DOMAIN handles[p] : handles'[p][h] = handles[p][h]
                    /\ IF r.k = "fn"
                       THEN e.result.kind = "function"
                       ELSE /\ e.result.kind = "object"
                            /\ e.result.values = cloneValuesOnly(r)
                            /\ e.result.functions = collectFunctionPaths(r)
                            /\ e.result.functions # <<>>
               ELSE /\ e.result = r
                    /\ handles'[p] = handles[p]
                    /\ DOMAIN handleMeta'[p] = DOMAIN handleMeta[p]]_vars

\* C9, the part that holds: the same, with the id being the one genId
\* produced in this step, whether or not it was produced before, and every
\* handle under another id as it was.
C9_HandleUnlessIdRepeats ==
  [][\A p \in Providers :
       /\ Cardinality(DOMAIN handles'[p] \ DOMAIN handles[p]) <= 1
       /\ Posts(p, "RESULT") =>
            LET e == toClient'[p][Len(toClient'[p])]
                r == ReturnedFor(p, e.id)
            IN IF r.k = "fn" \/ ContainsFunction(r, MaxDepth)
               THEN /\ e.result.k = "handle"
                    /\ idSeq'[p] = Append(idSeq[p], e.result.id)
                    /\ DOMAIN handles'[p] = DOMAIN handles[p] \cup {e.result.id}
                    /\ handles'[p][e.result.id] = r
                    /\ handleMeta'[p][e.result.id] = now
                    /\ \A h \in DOMAIN handles[p] \ {e.result.id} :
                         handles'[p][h] = handles[p][h]
                    /\ IF r.k = "fn"
                       THEN e.result.kind = "function"
                       ELSE /\ e.result.kind = "object"
                            /\ e.result.values = cloneValuesOnly(r)
                            /\ e.result.functions = collectFunctionPaths(r)
                            /\ e.result.functions # <<>>
               ELSE /\ e.result = r
                    /\ handles'[p] = handles[p]
                    /\ DOMAIN handleMeta'[p] = DOMAIN handleMeta[p]
                    /\ idSeq'[p] = idSeq[p]]_vars

\* C9, the diverging state: a second RESULT carried the id of the first;
\* the table has one handle and its value is the one returned last.
C9_ReplacedWitness ==
  \E p \in Providers :
    /\ Len(idSeq[p]) = 2 /\ idSeq[p][1] = idSeq[p][2]
    /\ DOMAIN handles[p] = {idSeq[p][1]}
    /\ \E x, y \in invoked :
         /\ x.p = p /\ y.p = p /\ x.fn.n = "mkAdder" /\ y.fn.n = "make"
         /\ handles[p][idSeq[p][1]] = Behave(y.fn, y.arg).val

\* C9 witness: make(3) returned an object whose only function sits in a
\* sub-object; one handle was registered for it and the payload lists the
\* function under its path.
C9_Witness ==
  \E p \in Providers : \E i \in 1..Len(toClient[p]) :
    LET e == toClient[p][i] IN
    /\ e.type = "RESULT" /\ e.result.k = "handle" /\ e.result.kind = "object"
    /\ e.result.functions = << <<"nested", ".", "fn">> >>
    /\ DOMAIN handles[p] = {e.result.id}
    /\ handles[p][e.result.id] = Obj("deep", 3)

\* The call that returned the reference of handle h, when it was mkAdder.
AdderCalls(h) ==
  {i \in DOMAIN promise :
     /\ calls[i].method = <<"mkAdder">> /\ calls[i].handle = NoHandle
     /\ promise[i].st = "resolved" /\ promise[i].val.k = "handle" /\ promise[i].val.id = h}

\* C10: a CALL with the empty method on the function-kind handle that
\* mkAdder(x) returned applies the function stored under that id (the
\* adder of an x that mkAdder returned under it) to the CALL's argument y
\* and to nothing else, and its caller's promise resolves to x + y (it can
\* only be rejected because the handle is gone from the provider called).
C10_CallHandleItself ==
  \A id \in DOMAIN calls :
    (calls[id].method = <<>> /\ calls[id].handle # NoHandle
       /\ AdderCalls(calls[id].handle) # {}) =>
      /\ \A i \in AdderCalls(calls[id].handle) : promise[i].val.kind = "function"
      /\ \A r \in invoked : r.id = id =>
           /\ r.arg = calls[id].arg
           /\ \E i \in AdderCalls(calls[id].handle) : r.fn = Fn("adder", calls[i].arg)
           /\ promise[id].st = "resolved" =>
                promise[id].val = Prim(r.fn.v + calls[id].arg)
      /\ promise[id].st = "resolved" => \E r \in invoked : r.id = id
      /\ promise[id].st = "rejected" =>
           promise[id].error = <<"Handle ", calls[id].handle, " not found">>

\* C10 witness: (await mkAdder(2))(3) resolved to 5.
C10_Witness ==
  /\ {"c1", "c2"} \subseteq DOMAIN calls
  /\ calls["c1"].method = <<"mkAdder">> /\ calls["c1"].arg = 2
  /\ calls["c2"].method = <<>> /\ calls["c2"].arg = 3
  /\ calls["c2"].handle = promise["c1"].val.id
  /\ promise["c2"] = [st |-> "resolved", val |-> Prim(5), error |-> <<>>]

\* The lastUsed entries of provider p other than h's keep their value.
OthersUntouched(p, h) ==
  \A x \in (DOMAIN handleMeta[p] \cap DOMAIN handleMeta'[p]) \ {h} :
    handleMeta'[p][x] = handleMeta[p][x]

\* C11: the step that takes a CALL naming a handle of the table sets that
\* handle's lastUsed to the current time, whatever becomes of the call
\* (reply, ERROR, await of a promise, exception during resolution), and
\* leaves the lastUsed of every other handle alone; a CALL on the root API
\* or on an unknown handle, and the later settling of an awaited promise,
\* change the lastUsed of no existing handle.
C11_LastUsedRefreshed ==
  [][\A p \in Providers :
       LET m == Head(toServer[p]) IN
       IF Serves(p) /\ m.handle # NoHandle /\ m.handle \in DOMAIN handles[p]
       THEN /\ m.handle \in DOMAIN handleMeta'[p]
            /\ handleMeta'[p][m.handle] = now
            /\ OthersUntouched(p, m.handle)
       ELSE OthersUntouched(p, NoHandle)]_vars

\* C11 witness: the handle created at time 0 was called once, at time 1,
\* with a method it does not have; the call was answered "not found" and
\* the handle's lastUsed is 1.
C11_Witness ==
  /\ rawCount = 2 /\ idSeq["P1"] = <<ServerGenId(0, RandomTexts[1])>>
  /\ idSeq["P1"][1] \in DOMAIN handleMeta["P1"]
  /\ handleMeta["P1"][idSeq["P1"][1]] = 1
  /\ \E i \in 1..Len(toClient["P1"]) :
       /\ toClient["P1"][i].type = "ERROR"
       /\ toClient["P1"][i].error = <<"Method ", "nope", " not found">>

\* C11 witness of the throwing call: the only CALL on the handle threw
\* and the handle's lastUsed is the time of that CALL.
C11_ThrowWitness ==
  /\ rawCount = 2 /\ Len(idSeq["P1"]) = 1 /\ now = 1
  /\ idSeq["P1"][1] \in DOMAIN handleMeta["P1"]
  /\ handleMeta["P1"][idSeq["P1"][1]] = 1
  /\ \E r \in invoked : r.fn.n = "fail" /\ r.arg = 3
  /\ \E i \in 1..Len(toClient["P1"]) :
       /\ toClient["P1"][i].type = "ERROR"
       /\ toClient["P1"][i].error = <<"[object Object]">>

\* The handle ids provider p issued before the current millisecond and no
\* longer holds; a handle the sweeper deleted is one of them from its
\* deletion on, since it had been idle for more than handleTtlMs > 0.
Gone(p) ==
  {h \in SeqToSet(idSeq[p]) \ DOMAIN handles[p] :
     \A d \in SeqToSet(RandomTexts) : h # ServerGenId(now, d)}

\* C12: with both options positive, a tick of the sweeper leaves in the
\* tables exactly the handles whose idle time (now - lastUsed) does not
\* exceed handleTtlMs, with their entries as they were; a handle that left
\* the table never comes back, and every CALL naming it is answered with
\* ERROR "Handle <id> not found".
C12_SweepExpiresIdle ==
  [][\A p \in Providers :
       /\ (sOpts.handleTtlMs > 0 /\ sOpts.sweepIntervalMs > 0 /\ Sweep(p)) =>
            LET kept == {h \in DOMAIN handles[p] :
                           now - handleMeta[p][h] <= sOpts.handleTtlMs} IN
            /\ DOMAIN handles'[p] = kept /\ DOMAIN handleMeta'[p] = kept
            /\ \A h \in kept : /\ handles'[p][h] = handles[p][h]
                                /\ handleMeta'[p][h] = handleMeta[p][h]
       /\ \A h \in Gone(p) :
            /\ h \notin DOMAIN handles'[p]
            /\ (Serves(p) /\ Head(toServer[p]).handle = h) =>
                 RepliesError(p, Head(toServer[p]).id, <<"Handle ", h, " not found">>)]_vars

\* C12 witness: two handles were created, at times 0 and 1, and no
\* RELEASE_HANDLE was posted; at time 2 the sweeper removed the first and
\* kept the second, and the one CALL on the first was answered "not found".
C12_Witness ==
  /\ rawCount = 3 /\ now = 2 /\ Len(idSeq["P1"]) = 2
  /\ DOMAIN handles["P1"] = {idSeq["P1"][2]}
  /\ handleMeta["P1"] = [x \in {idSeq["P1"][2]} |-> 1]
  /\ \E i \in 1..Len(toClient["P1"]) :
       /\ toClient["P1"][i].type = "ERROR"
       /\ toClient["P1"][i].error = <<"Handle ", idSeq["P1"][1], " not found">>

\* The sweeper is off: one of the two options is zero or negative.
SweeperOff == sOpts.handleTtlMs <= 0 \/ sOpts.sweepIntervalMs <= 0

\* C13: when handleTtlMs or sweepIntervalMs is zero or negative, a handle
\* leaves the provider's table only in the step that processes a
\* RELEASE_HANDLE naming it, however long it has been idle.
C13_NoSweeperNoExpiry ==
  [][SweeperOff =>
       \A p \in Providers : \A h \in DOMAIN handles[p] :
         h \notin DOMAIN handles'[p] =>
           /\ ServerHead(p, "RELEASE_HANDLE")
           /\ Head(toServer[p]).handle = h
           /\ toServer'[p] = Tail(toServer[p])]_vars

\* C13 witness: sweepIntervalMs is 0 and a handle idle for longer than
\* handleTtlMs is still in the table.
C13_Witness ==
  /\ sOpts.handleTtlMs = 1 /\ sOpts.sweepIntervalMs = 0
  /\ now = 2 /\ Len(idSeq["P1"]) = 1
  /\ idSeq["P1"][1] \in DOMAIN handles["P1"]
  /\ handleMeta["P1"][idSeq["P1"][1]] = 0

\* C13 witness for a negative handleTtlMs: the handle created at time 0 is
\* still in the table at time 2 and a CALL on it at that time was served.
C13_NegativeWitness ==
  /\ sOpts.handleTtlMs = -1 /\ sOpts.sweepIntervalMs = 1
  /\ now = 2 /\ rawCount = 2
  /\ idSeq["P1"] = <<ServerGenId(0, RandomTexts[1])>>
  /\ idSeq["P1"][1] \in DOMAIN handles["P1"]
  /\ handleMeta["P1"][idSeq["P1"][1]] = 2
  /\ \E i \in 1..Len(toClient["P1"]) : toClient["P1"][i].type = "RESULT"

\* The step in which provider p takes the RELEASE_HANDLE at the head of its
\* queue.
Releases(p) ==
  /\ ServerHead(p, "RELEASE_HANDLE")
  /\ toServer'[p] = Tail(toServer[p])

\* C14: processing RELEASE_HANDLE for id h leaves the handle table and the
\* lastUsed table without h and with every other entry as it was (so
\* nothing changes when h was absent, and h is absent afterwards, which
\* makes a second processing a no-op); it posts nothing, invokes nothing
\* and issues no id.
C14_ReleaseIdempotent ==
  [][\A p \in Providers :
       Releases(p) =>
         LET h == Head(toServer[p]).handle
             rest == DOMAIN handles[p] \ {h} IN
         /\ DOMAIN handles'[p] = rest /\ DOMAIN handleMeta'[p] = rest
         /\ \A x \in rest : /\ handles'[p][x] = handles[p][x]
                             /\ handleMeta'[p][x] = handleMeta[p][x]
         /\ (h \notin DOMAIN handles[p]) => UNCHANGED <<handles, handleMeta>>
         /\ UNCHANGED <<toClient, idSeq, running, invoked, now>>]_vars

\* C14 witness: a handle was created and released at time 0 (no sweep can
\* have evicted it), three messages were posted in all and all were
\* processed, and the provider sent nothing but READY and the RESULT that
\* carried the handle: the third message left no trace.
C14_Witness ==
  /\ rawCount = 3 /\ Len(idSeq["P1"]) = 1 /\ now = 0
  /\ toServer["P1"] = <<>> /\ running["P1"] = {}
  /\ handles["P1"] = NoFn /\ handleMeta["P1"] = NoFn
  /\ Len(toClient["P1"]) = 2 /\ toClient["P1"][2].type = "RESULT"

\* C14 witness of the second processing: the handle is already released
\* and a RELEASE_HANDLE naming it again is next in the queue.
C14_AgainWitness ==
  /\ Len(idSeq["P1"]) = 1 /\ now = 0 /\ handles["P1"] = NoFn
  /\ toServer["P1"] = <<ReleaseMsg(idSeq["P1"][1], "*")>>

\* C14 witness of the other handles: of two handles created, the first was
\* released and the second is in the table with its lastUsed.
C14_OtherWitness ==
  /\ rawCount = 3 /\ Len(idSeq["P1"]) = 2 /\ now = 0
  /\ toServer["P1"] = <<>> /\ idSeq["P1"][1] # idSeq["P1"][2]
  /\ DOMAIN handles["P1"] = {idSeq["P1"][2]}
  /\ handleMeta["P1"][idSeq["P1"][2]] = 0

\* The handle ids the consumer has received: the ones its calls resolved to.
Received == {r.id : r \in HeldRefs}

\* This step posts RELEASE_HANDLE for handle h to the bound provider.
SendsRelease(h) ==
  /\ targetWindow # NoWindow
  /\ \E i \in (Len(toServer[targetWindow]) + 1)..Len(toServer'[targetWindow]) :
       LET m == toServer'[targetWindow][i] IN
       m.type = "RELEASE_HANDLE" /\ m.handle = h

\* This step posts nothing to any provider.
SendsNothing == toServer' = toServer

\* C15: on 'beforeunload', under every releaseOnPageHide policy, every
\* handle the consumer has received and not yet released is marked
\* released and a RELEASE_HANDLE is sent for it, and the active-handle
\* table is empty afterwards.
C15_BeforeUnloadReleasesAll ==
  [][BeforeUnload =>
       /\ \A h \in Received \ released : h \in released' /\ SendsRelease(h)
       /\ activeHandles' = <<>>]_vars

\* C15 restricted to a host that has WeakRef, where every received handle
\* has an entry in the active-handle table until it is released: there the
\* statement holds, and only the handles due are marked and announced.
C15_WithWeakRef ==
  [][(BeforeUnload /\ cOpts.weakRefAvailable) =>
       /\ \A h \in Received \ released : h \in released' /\ SendsRelease(h)
       /\ released' = released \cup Received
       /\ IF targetWindow = NoWindow
          THEN Received \subseteq released /\ SendsNothing
          ELSE Len(toServer'[targetWindow]) =
                 Len(toServer[targetWindow]) + Cardinality(Received \ released)
       /\ activeHandles' = <<>>]_vars

\* C15, the state reached in a host with WeakRef: 'beforeunload' fired with
\* policy 'off' while two handles were held, and both are released.
C15_Witness ==
  /\ cOpts.weakRefAvailable /\ cOpts.releaseOnPageHide = "off"
  /\ pageLog # <<>> /\ pageLog[1].type = "beforeunload"
  /\ Cardinality(Received) = 2 /\ released = Received
  /\ relCalled = {} /\ \A o \in DOMAIN heap : heap[o] = "live"

\* C15, the state reached in a host without WeakRef: 'beforeunload' fired
\* while a handle was held, and the handle is not released.
C15_NoWeakRefWitness ==
  /\ ~cOpts.weakRefAvailable
  /\ pageLog # <<>> /\ pageLog[1].type = "beforeunload"
  /\ Received # {} /\ released = {}

\* The event the page fired in this step, when it fired one.
Fired(type) ==
  /\ Len(pageLog') = Len(pageLog) + 1
  /\ pageLog'[Len(pageLog')].type = type

\* C16: on 'pagehide', when releaseOnPageHide is 'all', or 'nonPersisted'
\* with persisted = false, every entry of the active-handle table that is
\* not released is marked released and announced with RELEASE_HANDLE, and
\* the table is empty afterwards; when it is 'off', or 'nonPersisted' with
\* persisted = true, nothing is marked, nothing is sent and the consumer's
\* state is what it was, so the handles stay usable.
C16_PageHidePolicy ==
  [][(PageHide /\ Fired("pagehide")) =>
       LET persisted == pageLog'[Len(pageLog')].persisted
           policy == cOpts.releaseOnPageHide IN
       IF policy = "all" \/ (policy = "nonPersisted" /\ ~persisted)
       THEN /\ \A h \in ActiveIds \ released : h \in released' /\ SendsRelease(h)
            /\ released' = released \cup ActiveIds
            /\ activeHandles' = <<>>
       ELSE /\ SendsNothing
            /\ UNCHANGED <<released, activeHandles, pending, promise, heap,
                           bindVars, initVars>>]_vars

\* C16 witness: the policy is 'nonPersisted', a pagehide with persisted =
\* true was fired, nothing is released, and a call on the handle held was
\* sent to the provider and resolved.
C16_Witness ==
  /\ cOpts.releaseOnPageHide = "nonPersisted"
  /\ pageLog = <<[type |-> "pagehide", persisted |-> TRUE]>>
  /\ released = {} /\ activeHandles # <<>>
  /\ \E id \in DOMAIN calls :
       /\ calls[id].handle \in ActiveIds
       /\ promise[id].st = "resolved"

\* C16 witness of the release: the policy is 'nonPersisted', a pagehide
\* with persisted = false was fired, and the two handles held are released.
C16_ReleaseWitness ==
  /\ cOpts.releaseOnPageHide = "nonPersisted"
  /\ pageLog = <<[type |-> "pagehide", persisted |-> FALSE]>>
  /\ Cardinality(Received) = 2 /\ released = Received /\ activeHandles = <<>>
  /\ relCalled = {} /\ \A o \in DOMAIN heap : heap[o] = "live"

\* C16 witness of 'off': a pagehide with persisted = false was fired,
\* nothing is released, and a call on the handle held resolved.
C16_OffWitness ==
  /\ cOpts.releaseOnPageHide = "off"
  /\ pageLog = <<[type |-> "pagehide", persisted |-> FALSE]>>
  /\ released = {} /\ activeHandles # <<>>
  /\ \E id \in DOMAIN calls :
       /\ calls[id].handle \in ActiveIds
       /\ promise[id].st = "resolved"

\* The reference returned for handle h has been garbage-collected.
RootCollected(h) == <<h, "root">> \in DOMAIN heap /\ heap[<<h, "root">>] # "live"

\* C17: a tick of the consumer's sweeper marks released, removes from the
\* active-handle table and announces with RELEASE_HANDLE every tabled
\* handle whose returned reference has been collected; it releases no
\* handle whose returned reference is still alive; and it drops an entry
\* whose id is already in the released set without sending anything for it.
C17_SweeperReleasesCollected ==
  [][WeakRefSweep =>
       \A h \in ActiveIds :
         IF h \in released
         THEN h \notin {activeHandles'[i].id : i \in 1..Len(activeHandles')}
              /\ ~SendsRelease(h)
         ELSE IF RootCollected(h)
              THEN /\ h \in released'
                   /\ h \notin {activeHandles'[i].id : i \in 1..Len(activeHandles')}
                   /\ SendsRelease(h)
              ELSE /\ h \notin released'
                   /\ ~SendsRelease(h)]_vars

\* C17 with the liveness of the entry's own weak reference in place of the
\* liveness of the returned reference: this is what the sweeper does, in
\* both modes.
C17_SweeperFollowsEntry ==
  [][WeakRefSweep =>
       \A i \in 1..Len(activeHandles) :
         LET e == activeHandles[i]
             after == {activeHandles'[j].id : j \in 1..Len(activeHandles')} IN
         IF e.id \in released
         THEN e.id \notin after /\ ~SendsRelease(e.id)
         ELSE IF heap[<<e.id, e.ref>>] # "live"
              THEN e.id \in released' /\ e.id \notin after /\ SendsRelease(e.id)
              ELSE e.id \notin released' /\ e.id \in after /\ ~SendsRelease(e.id)]_vars

\* C17, what holds in materialised mode, where the entry always refers to
\* the returned reference.
C17_Materialised ==
  [][(WeakRefSweep /\ ~cOpts.hideStructure) =>
       \A h \in ActiveIds :
         IF h \in released
         THEN h \notin {activeHandles'[i].id : i \in 1..Len(activeHandles')}
              /\ ~SendsRelease(h)
         ELSE IF RootCollected(h)
              THEN /\ h \in released'
                   /\ h \notin {activeHandles'[i].id : i \in 1..Len(activeHandles')}
                   /\ SendsRelease(h)
              ELSE /\ h \notin released'
                   /\ ~SendsRelease(h)]_vars

\* C17, the diverging state: in lazy mode, in a host without
\* FinalizationRegistry, the handle is released although the reference
\* returned for it is alive and the user code never released it; only the
\* sub-proxy of a nested read was collected.
C17_LiveReleasedWitness ==
  /\ cOpts.hideStructure /\ ~cOpts.finalReg /\ pageLog = <<>> /\ relCalled = {}
  /\ \E h \in released : Alive(h) /\ heap[<<h, "sub">>] = "collected"

\* C17, the sweeper's normal case: in a host without FinalizationRegistry
\* the returned reference was collected and the handle is released.
C17_Witness ==
  /\ ~cOpts.hideStructure /\ cOpts.weakRefAvailable /\ ~cOpts.finalReg
  /\ pageLog = <<>> /\ relCalled = {}
  /\ \E h \in released : RootCollected(h)

\* The step in which the consumer takes the `type` message at the head of
\* provider p's queue.
Takes(p, type) == ClientHead(p, type) /\ toClient'[p] = Tail(toClient[p])

\* C18: a step that adds an id to the released set (an explicit __release,
\* a finalisation callback, a sweeper tick, a page-lifecycle event) leaves
\* the pending table and every call's promise as they were; and a RESULT
\* or ERROR for a pending call made on a handle that has been released
\* since settles that call, resolving respectively rejecting its promise
\* and removing its entry.
C18_ReleaseKeepsPending ==
  [][/\ (released' # released) => UNCHANGED <<pending, promise>>
     /\ \A p \in Providers : \A type \in {"RESULT", "ERROR"} :
          LET id == Head(toClient[p]).id IN
          (Takes(p, type) /\ id \in pending /\ calls[id].handle \in released) =>
            /\ id \notin pending'
            /\ promise'[id].st = IF type = "RESULT" THEN "resolved" ELSE "rejected"]_vars

\* C18 witness: the handle is released, the call made on it before the
\* release is still pending, and its RESULT is in flight.
C18_Witness ==
  \E id \in pending :
    /\ calls[id].handle \in released
    /\ \E i \in 1..Len(toClient["P1"]) :
         toClient["P1"][i].type = "RESULT" /\ toClient["P1"][i].id = id

\* C19: when the target window is null, invoking a callable of the root or
\* of a handle that is not released creates no pending entry, issues no
\* call id, posts nothing, and rejects with "RPC target not ready".
C19_TargetNotReady ==
  [][(targetWindow = NoWindow /\ (UserCallRoot \/ UserCallHandle)) =>
       /\ UNCHANGED <<pending, promise, calls, callSeq>>
       /\ SendsNothing
       /\ \/ lastLocal'.error = TargetNotReady
          \/ /\ lastLocal'.handle \in released
             /\ lastLocal'.error = HandleReleased(lastLocal'.handle)]_vars

\* C19 witness: the consumer was bound, received a handle, and lost its
\* target to a READY without source; a call on the handle was rejected
\* locally with "RPC target not ready".
C19_Witness ==
  /\ initPromise.st = "resolved" /\ targetWindow = NoWindow
  /\ lastLocal.handle # NoHandle /\ lastLocal.handle \notin released
  /\ lastLocal.error = TargetNotReady

\* C19 witness for the root: the only READY had no source, and the call of
\* a root callable was rejected locally with nothing pending and nothing
\* sent.
C19_RootWitness ==
  /\ initPromise.st = "resolved" /\ targetWindow = NoWindow
  /\ lastLocal = [handle |-> NoHandle, error |-> TargetNotReady]
  /\ callSeq = 0 /\ pending = {}
  /\ \A p \in Providers : toServer[p] = <<>>

\* C20: a message whose discriminator is not "iframe-rpc", whose name is
\* not the receiver's channel name, or whose type the receiver has no
\* branch for is consumed without effect: the provider's handle table,
\* lastUsed, ids produced and running calls are unchanged and it posts
\* nothing; the consumer's binding, snapshot, function set, pending table,
\* promises, released set, active-handle table and init promise are
\* unchanged and it posts nothing.
C20_ForeignIgnored ==
  [][\A p \in Providers :
       /\ ( /\ listening[p] /\ toServer[p] # <<>>
            /\ toServer'[p] = Tail(toServer[p])
            /\ LET m == Head(toServer[p]) IN
                 \/ m.rpc # "iframe-rpc" \/ m.name # ChannelName
                 \/ m.type \notin {"GET", "CALL", "RELEASE_HANDLE"} )
            => UNCHANGED <<handles, handleMeta, idSeq, running, invoked, toClient>>
       /\ ( /\ toClient[p] # <<>>
            /\ toClient'[p] = Tail(toClient[p])
            /\ LET m == Head(toClient[p]) IN
                 \/ m.rpc # "iframe-rpc" \/ m.name # ChannelName
                 \/ m.type \notin {"READY", "RESULT", "ERROR", "INIT_ERROR"} )
            => UNCHANGED <<bindVars, initVars, pending, promise, released,
                           activeHandles, toServer>>]_vars

\* C20 witness: two foreign messages were posted, each peer has dropped
\* one, and the session goes on: the consumer is bound to P1, a handle it
\* received is in the provider's table and unreleased, and nothing is in
\* flight.
C20_Witness ==
  /\ ignored = {"provider", "consumer"} /\ rawCount = 2
  /\ \A p \in Providers : toServer[p] = <<>> /\ toClient[p] = <<>>
  /\ targetWindow = "P1" /\ initPromise.st = "resolved"
  /\ pending = {} /\ released = {}
  /\ Received # {} /\ Received = DOMAIN handles["P1"]

\* The allowedOrigins policy as the claim words it.
PolicyRejects(origin) ==
  /\ cOpts.hasAllowedOrigins
  /\ IF cOpts.allowedFn
     THEN origin \in cOpts.throwsOn \/ origin \notin cOpts.allowedOrigins
     ELSE origin \notin cOpts.allowedOrigins

\* The step in which the message at the head of the queue of p is
\* dispatched to the parent window.
Dispatched(p) == toClient[p] # <<>> /\ toClient'[p] = Tail(toClient[p])

\* C21: with allowedOrigins configured, the dispatch of a READY, RESULT,
\* ERROR or INIT_ERROR whose origin the list does not contain, or the
\* predicate rejects or throws for, changes nothing of the consumer: no
\* binding, the init promise, its timer and the listener as they were, no
\* pending call settled or removed.  With allowedOrigins absent a READY of
\* any origin binds a listening consumer and a RESULT or ERROR of any
\* origin settles the pending call it names.
C21_OriginFilter ==
  [][\A p \in Providers :
       Dispatched(p) =>
         LET m == Head(toClient[p]) IN
         /\ (m.type \in ClientTypes /\ PolicyRejects(m.origin)) =>
              UNCHANGED <<bindVars, initVars, callVars, relVars, lastLocal>>
         /\ (~cOpts.hasAllowedOrigins /\ listenerOn /\ m.type = "READY") =>
              targetWindow' = m.src /\ serverOrigin' = m.origin
         /\ (~cOpts.hasAllowedOrigins /\ listenerOn
               /\ m.type \in {"RESULT", "ERROR"} /\ m.id \in pending) =>
              m.id \notin pending' /\ promise'[m.id].st # "pending"]_vars

\* C21 witness: the predicate throws for the origin of P2; the READY P2
\* broadcast and a RESULT its window posted for the pending call were both
\* dispatched, and the consumer is bound to P1 with the call still pending.
C21_Witness ==
  /\ cOpts.allowedFn /\ cOpts.throwsOn = {Origin("P2")}
  /\ broadcast["P2"] = "sent" /\ toClient["P2"] = <<>> /\ rawCount = 1
  /\ "consumer" \in ignored
  /\ targetWindow = "P1" /\ serverOrigin = Origin("P1")
  /\ pending = {"c1"} /\ running["P1"] # {}

\* C21 witness of the absent policy: the consumer, bound to P1, had its
\* pending slow call settled by an ERROR posted from the window of P2.
C21_AbsentWitness ==
  /\ ~cOpts.hasAllowedOrigins
  /\ targetWindow = "P1" /\ running["P1"] # {}
  /\ "c1" \in DOMAIN promise /\ promise["c1"].error = K("forged")

\* The provider's allowedOrigins policy as the claim words it.
ProviderRejects(origin) ==
  sOpts.hasAllowedOrigins /\ origin \notin sOpts.allowedOrigins

\* The step in which the provider's listener is run on the message at the
\* head of the queue of p.
Delivered(p) == listening[p] /\ toServer[p] # <<>> /\ toServer'[p] = Tail(toServer[p])

\* C22 (as the spec states it): a GET, CALL or RELEASE_HANDLE whose origin
\* does not pass the provider's allowedOrigins is dropped: the handle table
\* stays as it is, no function is invoked and nothing is posted back.
C22_ProviderOriginFilter ==
  [][\A p \in Providers :
       (/\ Delivered(p)
        /\ Head(toServer[p]).type \in ServerTypes
        /\ ProviderRejects(Head(toServer[p]).origin)) =>
         UNCHANGED <<handles, handleMeta, idSeq, running, invoked, toClient>>]_vars

\* C22, the part that holds: a provider created without allowedOrigins
\* serves the messages of every origin (a CALL of a root function is
\* invoked, a GET is answered when a READY can be posted, a RELEASE_HANDLE
\* deletes the handle).
C22_AbsentAcceptsAll ==
  [][\A p \in Providers :
       (Delivered(p) /\ ~sOpts.hasAllowedOrigins) =>
         LET m == Head(toServer[p]) IN
         /\ (m.type = "GET" /\ "READY" \notin unpostable[p]) =>
              Len(toClient'[p]) = Len(toClient[p]) + 1
         /\ (m.type = "CALL" /\ m.handle = NoHandle /\ m.method = K("mkAdder")
               /\ Get(Api(p), K("mkAdder")).k = "fn") =>
              \E r \in invoked' \ invoked : r.id = m.id
         /\ (m.type = "RELEASE_HANDLE" /\ m.handle # NoHandle) =>
              m.handle \notin DOMAIN handles'[p]]_vars

\* C22, the diverging state: the provider lists only an origin the parent
\* is not served from, and the parent's CALL was invoked, registered a
\* handle and was answered.
C22_ServedWitness ==
  /\ sOpts.allowedOrigins = {TrustedOrigin}
  /\ \E r \in invoked : r.p = "P1" /\ r.fn.n = "mkAdder"
  /\ DOMAIN handles["P1"] # {}
  /\ \E i \in 1..Len(toClient["P1"]) : toClient["P1"][i].type = "RESULT"

\* The target origin the claim gives the consumer's posts.
ExpectedTarget ==
  IF cOpts.hasTargetOrigin THEN cOpts.targetOrigin
  ELSE IF serverOrigin # "" THEN serverOrigin
  ELSE "*"

\* The messages a step appends to the queue of p.
Posted(p) == SubSeq(toServer'[p], Len(toServer[p]) + 1, Len(toServer'[p]))

\* A CALL posted by a callable of a materialised handle tree.
FromMaterialisedTree(m) ==
  m.type = "CALL" /\ m.handle # NoHandle /\ m.method # <<>> /\ ~cOpts.hideStructure

\* C23 (as the spec states it): every CALL and RELEASE_HANDLE the consumer
\* posts is posted with options.targetOrigin if set, else with the origin
\* recorded from READY, else with '*', whatever callable it comes from.
C23_TargetOrigin ==
  [][\A p \in Providers :
       Len(toServer'[p]) > Len(toServer[p]) =>
         \A i \in 1..Len(Posted(p)) : Posted(p)[i].tgt = ExpectedTarget]_vars

\* C23, the part that holds: the same for every post but the CALLs of a
\* materialised handle tree, which are posted with '*'.
C23_ButMaterialisedTree ==
  [][\A p \in Providers :
       Len(toServer'[p]) > Len(toServer[p]) =>
         \A i \in 1..Len(Posted(p)) :
           Posted(p)[i].tgt =
             IF FromMaterialisedTree(Posted(p)[i]) THEN "*" ELSE ExpectedTarget]_vars

\* C23, the diverging state: the consumer recorded the origin of P1 and a
\* CALL on a method of a materialised object handle is on its way to P1
\* with target origin '*'.
C23_StarWitness ==
  /\ serverOrigin = Origin("P1") /\ ~cOpts.hideStructure
  /\ \E i \in 1..Len(toServer["P1"]) :
       LET m == toServer["P1"][i] IN
       m.type = "CALL" /\ m.handle # NoHandle /\ m.method # <<>> /\ m.tgt = "*"

\* C23, a state of the part that holds: a consumer with targetOrigin
\* configured that recorded no origin has released one handle and has a CALL
\* of a lazy scoped proxy on its way with the configured target origin.
C23_Witness ==
  \E i \in 1..Len(toServer["P1"]) :
    LET m == toServer["P1"][i] IN
    /\ cOpts.hasTargetOrigin /\ serverOrigin = "" /\ cOpts.hideStructure
    /\ targetWindow = "P1" /\ released # {}
    /\ m.type = "CALL" /\ m.handle # NoHandle /\ m.method # <<>>
    /\ m.tgt = Origin("P1")

\* The messages a step appends to what p has posted to the parent.
Answered(p) == SubSeq(toClient'[p], Len(toClient[p]) + 1, Len(toClient'[p]))

\* C24 (as the spec states it): the initial READY or INIT_ERROR is posted
\* with options.targetOrigin, '*' when the option is absent; a READY
\* answering a GET, a RESULT and an ERROR are posted with the origin of the
\* request as target origin (every request of these runs comes from the
\* parent's origin).
C24_ProviderTargets ==
  [][\A p \in Providers : \A i \in 1..Len(Answered(p)) :
       Answered(p)[i].tgt =
         IF broadcast'[p] # broadcast[p]
         THEN (IF sOpts.hasTargetOrigin THEN sOpts.targetOrigin ELSE "*")
         ELSE IF Delivered(p) THEN Head(toServer[p]).origin
         ELSE ParentOrigin]_vars

\* C24, what the provider does: whatever the options and the request,
\* everything it posts is posted with '*'.
C24_AlwaysStar ==
  [][\A p \in Providers : \A i \in 1..Len(Answered(p)) : Answered(p)[i].tgt = "*"]_vars

\* C24, the diverging state: a provider created with targetOrigin set to
\* the parent's origin has posted its initial READY and then a RESULT to a
\* CALL from that origin, both with '*'.
C24_StarWitness ==
  /\ sOpts.hasTargetOrigin /\ sOpts.targetOrigin = ParentOrigin
  /\ broadcast["P1"] = "sent"
  /\ Len(toClient["P1"]) >= 2
  /\ toClient["P1"][1].type = "READY" /\ toClient["P1"][1].tgt = "*"
  /\ toClient["P1"][2].type = "RESULT" /\ toClient["P1"][2].tgt = "*"

\* C25: the step that serves a GET hands exactly one message to the
\* postMessage of the window that sent it, a READY with the value snapshot
\* and the function paths of the initial READY (whatever was called,
\* released or swept since): that READY and nothing else is posted, and
\* nothing at all when that window's postMessage throws for a READY; the
\* step leaves the handle table, lastUsed, the ids and the running calls
\* as they are.
C25_GetResendsReady ==
  [][\A p \in Providers :
       (Delivered(p) /\ Head(toServer[p]).type = "GET") =>
         /\ IF "READY" \in unpostable[p]
            THEN Answered(p) = <<>>
            ELSE /\ Len(Answered(p)) = 1
                 /\ Answered(p)[1].type = "READY"
                 /\ Answered(p)[1].values = toClient[p][1].values
                 /\ Answered(p)[1].functions = toClient[p][1].functions
         /\ Head(toServer[p]).src = "parent"
         /\ UNCHANGED <<handles, handleMeta, idSeq, running, invoked>>]_vars

\* C25, the GET that cannot be answered: the parent's postMessage throws
\* for a READY, two GETs were served and only the initial READY is posted.
C25_ThrowsWitness ==
  /\ "READY" \in unpostable["P1"] /\ rawCount = 2 /\ toServer["P1"] = <<>>
  /\ invoked = {} /\ Len(toClient["P1"]) = 1 /\ toClient["P1"][1].type = "READY"

\* C25 witness: a call was served and registered a handle, the handle was
\* released, and the GET that followed was answered with a READY whose
\* snapshot still reads served = 0.
C25_Witness ==
  /\ Served("P1") = 1 /\ Gone("P1") # {} /\ toServer["P1"] = <<>>
  /\ Len(toClient["P1"]) = 3
  /\ toClient["P1"][3].type = "READY"
  /\ <<K("served"), Prim(0)>> \in
       SeqToSet(toClient["P1"][3].values.nodes[toClient["P1"][3].values.root])

\* The handle ids provider p has put in a RESULT so far (what p posts to
\* the parent stays in the queue in the runs of the provider alone).
Issued(p) ==
  {toClient[p][i].result.id :
     i \in {j \in 1..Len(toClient[p]) :
              toClient[p][j].type = "RESULT" /\ toClient[p][j].result.k = "handle"}}

\* C26 (as the spec states it): an id that enters the handle table was
\* never issued before by that provider, and an id that was issued and has
\* left the table (released or evicted) never enters it again, so a stale
\* id never names a later handle.
C26_IdsNeverReused ==
  /\ [][\A p \in Providers :
         \A h \in DOMAIN handles'[p] \ DOMAIN handles[p] : h \notin Issued(p)]_vars
  /\ [][\A p \in Providers :
         \A h \in Issued(p) \ DOMAIN handles[p] : h \notin DOMAIN handles'[p]]_vars

\* C26, the part that holds: an id begins with the time of its creation,
\* so an id that left the table before the current millisecond (every id
\* the sweeper evicted, and every id released in an earlier millisecond)
\* never names a later handle.
C26_EarlierIdsNeverReused ==
  [][\A p \in Providers :
       \A h \in Issued(p) \ DOMAIN handles[p] :
         (\A d \in SeqToSet(RandomTexts) : h # ServerGenId(now, d)) =>
           h \notin DOMAIN handles'[p]]_vars

\* C26, the diverging state: two handles were created in one millisecond
\* and genId produced the same id for both; the table has one entry under
\* that id, which a CALL or RELEASE_HANDLE meant for either handle reaches.
C26_ReusedWitness ==
  /\ Len(idSeq["P1"]) = 2 /\ idSeq["P1"][1] = idSeq["P1"][2]
  /\ rawCount = 3 /\ toServer["P1"] = <<>>
  /\ toClient["P1"][2].type = "RESULT" /\ toClient["P1"][3].type = "RESULT"
  /\ DOMAIN handles["P1"] = {idSeq["P1"][1]}

\* C26 witness: two ids were issued; the first has been removed from the
\* table (released or evicted) and the second, another id, is in it.
C26_Witness ==
  /\ Cardinality(Issued("P1")) = 2 /\ rawCount = 3 /\ toServer["P1"] = <<>>
  /\ toClient["P1"][2].type = "RESULT"
  /\ toClient["P1"][2].result.id \notin DOMAIN handles["P1"]
  /\ Cardinality(DOMAIN handles["P1"]) = 1

\* C27 (as the spec states it): a consumer created with a timeout of zero
\* or less never receives and processes a READY: it is never bound and its
\* init promise is never resolved, only rejected with the timeout text.
C27_TimeoutBeforeReady ==
  cOpts.timeout <= 0 =>
    /\ targetWindow = NoWindow
    /\ initPromise.st # "resolved"
    /\ initPromise.st = "rejected" =>
         \/ initPromise.error = InitTimeoutError
         \/ \E p \in Providers : broadcast[p] = "readyThrows"

\* C27, the diverging state: with timeout 0, at time 0, the READY of a
\* provider created right after the consumer was dispatched before the
\* timer ran; the consumer is bound, resolved, and the timer is cancelled.
C27_ReadyFirstWitness ==
  /\ cOpts.timeout = 0 /\ now = 0
  /\ targetWindow = "P1" /\ initPromise.st = "resolved" /\ ~timerArmed

\* C27, the other order: with a negative timeout, at time 0, the timer ran
\* while the READY was waiting; the READY was then dispatched and dropped.
C27_TimerFirstWitness ==
  /\ cOpts.timeout < 0 /\ now = 0
  /\ broadcast["P1"] = "sent" /\ toClient["P1"] = <<>> /\ "consumer" \in ignored
  /\ initPromise.st = "rejected" /\ initPromise.error = InitTimeoutError
  /\ targetWindow = NoWindow

\* The function the provider's own object graph has at the end of a chain
\* of property reads from ctx.
FunctionAt(ctx, keys) == walk(ctx, keys)

\* Every chain of reads on the root that ends on a function of the API
\* gives a callable.
RootAliasesCallable ==
  initPromise.st = "resolved" =>
    \A keys \in AliasReads(values, RootMethods) :
      FunctionAt(Api("P1"), keys).k = "fn" => ReadRoot(keys).k = "callable"

\* Every chain of reads on an object handle that ends on a function of the
\* handle's value gives a callable.
HandleAliasesCallable ==
  \A ref \in ObjectRefs :
    ref.id \in DOMAIN handles["P1"] =>
      \A keys \in AliasReads(ref.values, SeqToSet(ref.functions)) :
        FunctionAt(handles["P1"][ref.id], keys).k = "fn"
          => ReadHandle(ref, keys).k = "callable"

\* No call was answered, or is about to be answered, "Method not found".
NeverMethodNotFound ==
  /\ \A id \in DOMAIN promise :
       promise[id].st = "rejected" => promise[id].error # MethodNotFound(calls[id].method)
  /\ \A p \in Providers : \A i \in 1..Len(toClient[p]) :
       toClient[p][i].type = "ERROR"
         => toClient[p][i].error # MethodNotFound(calls[toClient[p][i].id].method)

\* The CALL a step posts names, in ctx, the function `fn`.
PostsCallFor(ctx, fn) ==
  /\ fn.k = "fn"
  /\ Len(Posted("P1")) = 1
  /\ Posted("P1")[1].type = "CALL"
  /\ Posted("P1")[1].method \in SeqToSet(collectFunctionPaths(ctx))
  /\ ResolveMethod(ctx, Posted("P1")[1].method) = fn

\* C28: on a snapshot with a cycle and a shared object, reading a function
\* through any chain of nested objects, on the root and on an object handle,
\* in lazy and in materialised mode, gives a callable; calling it posts one
\* CALL (on a handle: one that was not released) whose method is a path the
\* provider recorded and which the provider resolves to the very function
\* the chain of reads ends on in the provider's object graph; and no call is
\* answered "Method not found".
C28_AliasResolves ==
  /\ [](RootAliasesCallable /\ HandleAliasesCallable /\ NeverMethodNotFound)
  /\ [][ /\ \A keys \in AliasReads(values, RootMethods) :
              UserCallAliasAt(keys) => PostsCallFor(Api("P1"), FunctionAt(Api("P1"), keys))
          /\ \A ref \in ObjectRefs :
              \A ks \in AliasReads(ref.values, SeqToSet(ref.functions)) :
                (/\ UserCallHandleAliasAt(ref, ks)
                 /\ ref.id \in DOMAIN handles["P1"]
                 /\ ~IsReleased(ref.id))
                  => PostsCallFor(handles["P1"][ref.id],
                                  FunctionAt(handles["P1"][ref.id], ks)) ]_vars

\* C28 witness: the consumer called mkCyclic, read self.nested.fn (lazy
\* mode: through a scoped sub-proxy) on the cyclic object it got, and the
\* call, posted as nested.fn, resolved to the function's result.
C28_Witness ==
  \E j \in DOMAIN promise :
    /\ calls[j].handle # NoHandle
    /\ calls[j].method = <<"nested", DOT, "fn">>
    /\ promise[j].st = "resolved"
    /\ promise[j].val = Prim(6)
    /\ ~materializeStructure
    /\ <<calls[j].handle, "sub">> \in DOMAIN heap

\* C28 witness on the root, in materialised mode: a call read through the
\* tree resolved as cycle.nested.fn, and one as first.inner.fn, the path
\* the shared object was recorded under.
C28_RootWitness ==
  \E i, j \in DOMAIN promise :
    /\ materializeStructure
    /\ calls[i].handle = NoHandle
    /\ calls[i].method = <<"cycle", DOT, "nested", DOT, "fn">>
    /\ promise[i].st = "resolved"
    /\ calls[j].handle = NoHandle
    /\ calls[j].method = <<"first", DOT, "inner", DOT, "fn">>
    /\ promise[j].st = "resolved"

\* On the handle of a cyclic object (o.self = o, o.nested.parent = o):
\* __release read through the cycle is the handle's release function in both
\* modes; read on the nested object it is the release function of a scoped
\* proxy and nothing on a materialised tree, whose root alone owns it.
ReleaseThroughCycle ==
  \A ref \in ObjectRefs :
    ref.values.root = Obj("cyc", 5) =>
      /\ ReadHandle(ref, <<K("__release")>>) = ReleaseFn(ref.id)
      /\ ReadHandle(ref, <<K("self"), K("__release")>>) = ReleaseFn(ref.id)
      /\ ReadHandle(ref, <<K("nested"), K("parent"), K("__release")>>) = ReleaseFn(ref.id)
      /\ ReadHandle(ref, <<K("nested"), K("__release")>>) =
           (IF ref.materialized THEN Undef ELSE ReleaseFn(ref.id))

\* A function read through a chain of nested objects of a released handle
\* was called and rejected locally, in materialised mode.
ReleasedAliasRejected ==
  \E ref \in ObjectRefs :
    /\ ref.materialized /\ ref.id \in relCalled
    /\ lastLocal = [handle |-> ref.id, error |-> HandleReleased(ref.id)]

\* Every function path of provider p's READY names a function of its API
\* under the provider's method resolution.
ReadyPathsResolve(p) ==
  \A path \in SeqToSet(built[p].functions) : ResolveMethod(Api(p), path).k = "fn"

\* Every function path of a live object handle's payload names a function
\* of the handle's stored value.
HandlePathsResolve(p) ==
  \A h \in HandlePayloads(p) :
    h.id \in DOMAIN handles[p] =>
      \A path \in SeqToSet(h.functions) : ResolveMethod(handles[p][h.id], path).k = "fn"

\* Provider p has answered "Method ... not found".
AnsweredNotFound(p) ==
  \E i \in 1..Len(toClient[p]) :
    /\ toClient[p][i].type = "ERROR"
    /\ Head(toClient[p][i].error) = "Method "

\* C29: every function path in READY and in every object-handle payload
\* resolves, by the provider's own method resolution, to a function of the
\* API, respectively of the live handle's value, and no CALL for an
\* advertised path is answered "Method not found".
C29_AdvertisedResolve ==
  \A p \in Providers :
    listening[p] => ReadyPathsResolve(p) /\ HandlePathsResolve(p) /\ ~AnsweredNotFound(p)

\* C29, for the API whose keys are non-empty and contain no dot: there it
\* holds.
C29_PlainKeysResolve ==
  sOpts.api = "graph" =>
    \A p \in Providers :
      listening[p] => ReadyPathsResolve(p) /\ HandlePathsResolve(p) /\ ~AnsweredNotFound(p)

\* C29 witness: the provider advertised the path x.y for the function under
\* the key 'x.y' and answered the CALL for it "Method x.y not found".
C29_NotFoundWitness ==
  /\ <<"x", DOT, "y">> \in SeqToSet(built["P1"].functions)
  /\ Get(Api("P1"), <<"x", DOT, "y">>).k = "fn"
  /\ \E i \in 1..Len(toClient["P1"]) :
       /\ toClient["P1"][i].type = "ERROR"
       /\ toClient["P1"][i].error = MethodNotFound(<<"x", DOT, "y">>)

\* C29 witness on a handle: the payload of a live object handle advertised
\* a.b and the CALL for it on that handle was answered "Method a.b not found".
C29_HandleWitness ==
  \E h \in HandlePayloads("P1") :
    /\ h.id \in DOMAIN handles["P1"]
    /\ <<"a", DOT, "b">> \in SeqToSet(h.functions)
    /\ \E i \in 1..Len(toClient["P1"]) :
         /\ toClient["P1"][i].type = "ERROR"
         /\ toClient["P1"][i].error = MethodNotFound(<<"a", DOT, "b">>)

\* The object a recorded function path was recorded on: what its parent
\* path leads to from ctx.
RecordedOn(ctx, path) ==
  LET parts == Split(path)
      parentPath == Join(SubSeq(parts, 1, Len(parts) - 1))
  IN IF parentPath # <<>> THEN getDeep(ctx, parentPath) ELSE ctx

\* The positions of the list fns at which the function under `key` of
\* object obj is recorded.
RecordsOf(ctx, fns, obj, key) ==
  { i \in 1..Len(fns) : RecordedOn(ctx, fns[i]) = obj /\ LeafKey(fns[i]) = key }

\* The chains of keys that lead from the root of the graph to obj.
ChainsTo(vals, obj) ==
  { c \in ObjectChains(vals, vals.root, MaxAlias - 1) : snapWalk(vals, vals.root, c) = obj }

\* The number of keys on a shortest path from the root to obj.
ShortestTo(vals, obj) ==
  CHOOSE n \in 0..MaxAlias :
    /\ \E c \in ChainsTo(vals, obj) : Len(c) = n
    /\ \A c \in ChainsTo(vals, obj) : Len(c) >= n

\* The keys of obj under which collection finds a function.
FunctionKeys(obj) ==
  { k \in SeqToSet(listFunctionKeysForCollect(obj)) : Get(obj, k).k = "fn" }

\* The number of keys of a path ('' has none).
KeyCount(path) == IF path = <<>> THEN 0 ELSE Len(Split(path))

\* The collection over ctx (with snapshot vals) gave fns: every function of
\* every object of the graph is recorded at exactly one position, and
\* there under a parent path of lens[object] keys.
RecordedOnceAt(ctx, vals, fns, lens) ==
  \A obj \in DOMAIN vals.nodes : \A key \in FunctionKeys(obj) :
    /\ Cardinality(RecordsOf(ctx, fns, obj, key)) = 1
    /\ \A i \in RecordsOf(ctx, fns, obj, key) : KeyCount(fns[i]) - 1 = lens[obj]

ShortestLengths(vals) == [obj \in DOMAIN vals.nodes |-> ShortestTo(vals, obj)]

FirstLengths(vals) ==
  [obj \in DOMAIN vals.nodes |-> KeyCount(buildCanonicalIndex(vals)[obj])]

\* C30: for the API graph with a cycle and a shared object, and for the
\* cyclic objects its function returns, collection records every function
\* of every object under exactly one path, and that path is a shortest
\* path to the object.
C30_FirstShortestPath ==
  sOpts.api = "graph" =>
    /\ RecordedOnceAt(Api("P1"), built["P1"].values, built["P1"].functions,
                      ShortestLengths(built["P1"].values))
    /\ \A h \in HandlePayloads("P1") :
         h.id \in DOMAIN handles["P1"] =>
           RecordedOnceAt(handles["P1"][h.id], h.values, h.functions,
                          ShortestLengths(h.values))

\* C30, with the path the code records: the one the depth-first walk in
\* key order reaches the object by first (the path the consumer's
\* canonical index gives the object), whether or not a shorter one exists.
C30_FirstDiscoveredPath ==
  sOpts.api = "graph" =>
    /\ RecordedOnceAt(Api("P1"), built["P1"].values, built["P1"].functions,
                      FirstLengths(built["P1"].values))
    /\ \A h \in HandlePayloads("P1") :
         h.id \in DOMAIN handles["P1"] =>
           RecordedOnceAt(handles["P1"][h.id], h.values, h.functions,
                          FirstLengths(h.values))

\* C30 witness: the object reachable as `shared` and as `first.inner` has
\* its function recorded as first.inner.fn, one key longer than shared.fn,
\* which is not recorded; and the provider has served a call.
C30_LongerPathWitness ==
  /\ Get(Api("P1"), K("shared")) = Get(Get(Api("P1"), K("first")), K("inner"))
  /\ <<"first", DOT, "inner", DOT, "fn">> \in SeqToSet(built["P1"].functions)
  /\ <<"shared", DOT, "fn">> \notin SeqToSet(built["P1"].functions)
  /\ \E x \in invoked : x.fn.n = "commonFn"

\* The snapshots provider p has sent: the values of its READY and of its
\* object-handle payloads.
SnapshotsOf(p) == {built[p].values} \cup { h.values : h \in HandlePayloads(p) }

\* The function-path lists provider p has sent.
PathListsOf(p) == {built[p].functions} \cup { h.functions : h \in HandlePayloads(p) }

\* Every cloned object of the snapshot holds, under each key it kept, the
\* clone of what the original holds there, and that clone is an object of
\* the same snapshot: a reference back to an object met before is that
\* object's one clone.
ReferencesKept(vals) ==
  \A n \in DOMAIN vals.nodes :
    /\ \A key \in SeqToSet(listReadableKeys(n)) :
         (isObject(Get(n, key)) /\ Get(n, key) # Thrown) =>
           /\ snapGet(vals, n, key) = Get(n, key)
           /\ isStructuredClonePassThrough(Get(n, key)) \/ Get(n, key) \in DOMAIN vals.nodes
    /\ \A i, j \in 1..Len(vals.nodes[n]) :
         vals.nodes[n][i][1] = vals.nodes[n][j][1] => i = j

\* The canonical index gives every object of the snapshot one path, and no
\* two objects the same path.
IndexedOnce(vals) ==
  /\ DOMAIN vals.nodes \subseteq DOMAIN buildCanonicalIndex(vals)
  /\ \A a, b \in DOMAIN vals.nodes :
       buildCanonicalIndex(vals)[a] = buildCanonicalIndex(vals)[b] => a = b

\* No function path is listed twice.
ListedOnce(fns) == \A i, j \in 1..Len(fns) : fns[i] = fns[j] => i = j

\* C31: cloning, function-path collection and index construction end on
\* every API graph and returned object, cyclic ones included, with each
\* object cloned and indexed once and each function listed once, and the
\* clone reproduces every cycle by reference: where the original refers
\* back to an object, the clone refers to that object's clone.
C31_CyclesByReference ==
  \A p \in Providers :
    listening[p] =>
      /\ \A vals \in SnapshotsOf(p) : ReferencesKept(vals) /\ IndexedOnce(vals)
      /\ \A fns \in PathListsOf(p) : ListedOnce(fns)

\* C31 witness: the provider has returned an object whose `self` is the
\* object itself and whose nested.parent is the object too, and in the
\* payload's snapshot both lead back to the snapshot's root; the READY
\* snapshot has the same cycle one level down.
C31_SelfWitness ==
  /\ sOpts.api = "graph"
  /\ snapGet(built["P1"].values, Get(Api("P1"), K("cycle")), K("self"))
       = Get(Api("P1"), K("cycle"))
  /\ \E h \in HandlePayloads("P1") :
       /\ Get(h.values.root, K("self")) = h.values.root
       /\ snapGet(h.values, h.values.root, K("self")) = h.values.root
       /\ snapGet(h.values, snapGet(h.values, h.values.root, K("nested")), K("parent"))
            = h.values.root

\* The step in which the consumer's handler takes a RESULT or an ERROR of p.
ReplyTaken(p) == Takes(p, "RESULT") \/ Takes(p, "ERROR")

\* The state a promise is put in by the reply at the head of p's queue.
OutcomeOf(m) == IF m.type = "RESULT" THEN "resolved" ELSE "rejected"

\* C32: a RESULT or ERROR whose id is pending settles that entry's promise
\* and removes the entry in the same step, leaving every other promise and
\* entry alone; one whose id is not pending (a duplicate or late reply)
\* changes no promise, no pending entry and no handle tracking; a settled
\* promise is never settled again; and the listener stays attached.
C32_RepliesSettleOnce ==
  [][/\ \A p \in Providers :
          ReplyTaken(p) =>
            /\ listenerOn'
            /\ DOMAIN promise' = DOMAIN promise
            /\ IF Head(toClient[p]).id \in pending
               THEN /\ pending' = pending \ {Head(toClient[p]).id}
                    /\ promise'[Head(toClient[p]).id].st = OutcomeOf(Head(toClient[p]))
                    /\ \A other \in DOMAIN promise \ {Head(toClient[p]).id} :
                         promise'[other] = promise[other]
               ELSE /\ pending' = pending /\ promise' = promise
                    /\ activeHandles' = activeHandles /\ heap' = heap
     /\ \A id \in DOMAIN promise :
          promise[id].st # "pending" => promise'[id] = promise[id]
     /\ \A id \in DOMAIN promise :
          (promise[id].st = "pending" /\ promise'[id].st # "pending") =>
            id \in pending /\ id \notin pending']_vars

\* C32 witness: a call was rejected by an ERROR another window posted for
\* it, the provider's own reply for the same id came afterwards and was
\* handled with the listener attached, and the promise is as the first
\* reply left it.
C32_DuplicateWitness ==
  \E id \in DOMAIN promise :
    /\ promise[id].st = "rejected" /\ promise[id].error = K("forged")
    /\ InvokedFor(id) # {}
    /\ \A r \in running[calls[id].to] : r.id # id
    /\ \A p \in Providers : \A i \in 1..Len(toClient[p]) : toClient[p][i].id # id
    /\ listenerOn /\ isOriginAllowed(Origin(calls[id].to))
    /\ "consumer" \notin ignored

\* The step in which provider p posts exactly one message, a RESULT or an
\* ERROR for call id.
RepliesOnce(p, id) ==
  /\ Len(Answered(p)) = 1
  /\ Answered(p)[1].type \in {"RESULT", "ERROR"}
  /\ Answered(p)[1].id = id

\* The RESULT and ERROR messages for call id among the messages q.
RepliesTo(q, id) ==
  {i \in 1..Len(q) : q[i].type \in {"RESULT", "ERROR"} /\ q[i].id = id}

\* The step that takes a CALL answers it once or leaves it awaiting the
\* function's promise, and the step in which that promise settles answers
\* it once.
AnswersOrAwaits(p) ==
  /\ (Serves(p) /\ ServerAccepts(p, Head(toServer[p]))) =>
       IF \E r \in running'[p] \ running[p] : r.id = Head(toServer[p]).id
       THEN Answered(p) = <<>>
       ELSE RepliesOnce(p, Head(toServer[p]).id)
  /\ \A r \in running[p] \ running'[p] : RepliesOnce(p, r.id)

\* C33 (as the spec states it): every CALL the provider takes is answered
\* with exactly one message carrying its id, a RESULT or an ERROR, at once
\* or when the invoked function's promise settles; never none, and never
\* two for one id.
C33_AnsweredOnce ==
  /\ [](\A p \in Providers : \A i \in 1..Len(toClient[p]) :
          toClient[p][i].type \in {"RESULT", "ERROR"} =>
            RepliesTo(toClient[p], toClient[p][i].id) = {i})
  /\ [][\A p \in Providers : AnswersOrAwaits(p)]_vars

\* C33, the part that holds: the same, for every CALL whose method
\* resolution reads no property whose getter throws, as long as the
\* parent's postMessage takes an ERROR; and when it throws for a RESULT,
\* the call is answered with the ERROR of that failure.
C33_AnsweredUnlessLookupThrows ==
  /\ [](\A p \in Providers : \A i \in 1..Len(toClient[p]) :
          toClient[p][i].type \in {"RESULT", "ERROR"} =>
            RepliesTo(toClient[p], toClient[p][i].id) = {i})
  /\ [][\A p \in Providers :
          \/ Serves(p) /\ (Head(toServer[p]).handle = NoHandle
                           \/ Head(toServer[p]).handle \in DOMAIN handles[p])
             /\ ResolveMethod(CallContext(p, Head(toServer[p]).handle),
                              Head(toServer[p]).method) = Thrown
          \/ "ERROR" \in unpostable[p]
          \/ /\ AnswersOrAwaits(p)
             /\ \A r \in running[p] \ running'[p] :
                  (r.ok /\ "RESULT" \in unpostable[p]) =>
                    /\ Answered(p)[1].type = "ERROR"
                    /\ Answered(p)[1].error = serializeError(PostFailure)]_vars

\* C33, a post that failed: the parent's postMessage throws for a RESULT,
\* the function of the only CALL returned, and the CALL was answered with
\* the ERROR of the failure.
C33_PostFailureWitness ==
  /\ unpostable["P1"] = {"RESULT"} /\ rawCount = 1 /\ running["P1"] = {}
  /\ \E r \in invoked : r.fn.n = "mkAdder"
  /\ Len(toClient["P1"]) = 2 /\ toClient["P1"][2].type = "ERROR"
  /\ toClient["P1"][2].error = K("DataCloneError: Uncloneable payload")
  /\ Cardinality(DOMAIN handles["P1"]) = 1

\* C33, a CALL that is never answered for want of a channel: the parent's
\* postMessage throws for a RESULT and for an ERROR, the function of the
\* only CALL returned, and nothing was posted after the initial READY.
C33_NothingPostableWitness ==
  /\ unpostable["P1"] = {"RESULT", "ERROR"} /\ rawCount = 1 /\ running["P1"] = {}
  /\ toServer["P1"] = <<>> /\ invoked # {} /\ Len(toClient["P1"]) = 1

\* C33 witness of the part that holds: a slow call was answered after a
\* later call, a failing call was answered with ERROR, each id once.
C33_AnsweredWitness ==
  /\ running["P1"] = {} /\ toServer["P1"] = <<>> /\ rawCount = 3
  /\ \E i, j, k \in 1..Len(toClient["P1"]) :
       /\ i < j /\ j # k /\ i # k
       /\ toClient["P1"][i].type = "RESULT" /\ toClient["P1"][i].id = "r2"
       /\ toClient["P1"][j].type = "RESULT" /\ toClient["P1"][j].id = "r1"
       /\ toClient["P1"][k].type = "ERROR" /\ toClient["P1"][k].id = "r3"

\* C34: in every reachable provider state the handle-value table and the
\* handle-metadata table hold exactly the same ids: creation, RELEASE_HANDLE
\* and TTL eviction each update both.
C34_TablesAgree ==
  \A p \in Providers : DOMAIN handles[p] = DOMAIN handleMeta[p]

\* C34 witness: two handles were created and three messages posted; one
\* handle is left in both tables at a time when the sweeper has evicted
\* what was idle since time 0.
C34_Witness ==
  /\ rawCount = 3 /\ toServer["P1"] = <<>> /\ Len(idSeq["P1"]) = 2 /\ now = MaxTime
  /\ Cardinality(DOMAIN handles["P1"]) = 1
  /\ \A id \in DOMAIN handleMeta["P1"] : handleMeta["P1"][id] > 0
  /\ Expired("P1") = {}

\* Whether the method of CALL m is in the function list provider p sent for
\* the call's context: the list of READY without a handle, the list of the
\* handle's payload with one (for a function handle, the empty method).
Advertised(p, m) ==
  IF m.handle = NoHandle THEN m.method \in SeqToSet(built[p].functions)
  ELSE IF handles[p][m.handle].k = "fn" THEN m.method = <<>>
  ELSE m.method \in SeqToSet(collectFunctionPaths(handles[p][m.handle]))

\* The step in which provider p takes a CALL whose context exists.
ServesInContext(p) ==
  /\ Serves(p) /\ ServerAccepts(p, Head(toServer[p]))
  /\ Head(toServer[p]).handle = NoHandle \/ Head(toServer[p]).handle \in DOMAIN handles[p]

\* C35 (as the spec states it): the provider invokes only functions whose
\* path is in the function list it sent for the context, and answers a
\* CALL naming any other path "Method not found" without invoking anything.
C35_OnlyAdvertisedInvoked ==
  [][\A p \in Providers :
       (ServesInContext(p) /\ ~Advertised(p, Head(toServer[p]))) =>
         /\ RepliesError(p, Head(toServer[p]).id, MethodNotFound(Head(toServer[p]).method))
         /\ invoked' = invoked]_vars

\* C35, amended: the provider invokes the function the method reads to in
\* the context, listed or not (the inherited toString is invoked and its
\* text awaited, to be posted in a RESULT), and answers "Method not found"
\* when the method reads to a value that is not a function.
C35_InvokesWhatResolves ==
  [][\A p \in Providers :
       ServesInContext(p) =>
         /\ (Head(toServer[p]).handle = NoHandle
               /\ Head(toServer[p]).method = K("toString")) =>
              /\ invoked' = invoked \cup
                   {[p |-> p, id |-> Head(toServer[p]).id, fn |-> Fn("toString", 0),
                     arg |-> Head(toServer[p]).arg]}
              /\ Answered(p) = <<>>
              /\ \E r \in running'[p] \ running[p] :
                   /\ r.id = Head(toServer[p]).id /\ r.ok
                   /\ r.val = StrV("[object Object]")
         /\ invoked' # invoked =>
              /\ ResolveMethod(CallContext(p, Head(toServer[p]).handle),
                               Head(toServer[p]).method).k = "fn"
              /\ invoked' = invoked \cup
                   {[p |-> p, id |-> Head(toServer[p]).id,
                     fn |-> ResolveMethod(CallContext(p, Head(toServer[p]).handle),
                                          Head(toServer[p]).method),
                     arg |-> Head(toServer[p]).arg]}
         /\ (invoked' = invoked /\ Answered(p) # <<>>) =>
              RepliesError(p, Head(toServer[p]).id,
                           MethodNotFound(Head(toServer[p]).method))]_vars

\* C35 witness: a CALL for toString, which READY does not list, was served:
\* the inherited function was applied and its text returned in a RESULT.
C35_UnlistedInvokedWitness ==
  /\ K("toString") \notin SeqToSet(built["P1"].functions)
  /\ \E x \in invoked : x.p = "P1" /\ x.fn = Fn("toString", 0)
  /\ \E i \in 1..Len(toClient["P1"]) :
       /\ toClient["P1"][i].type = "RESULT"
       /\ toClient["P1"][i].result = StrV("[object Object]")

\* The RELEASE_HANDLE messages among the messages q, by position.
ReleasesIn(q) == {i \in 1..Len(q) : q[i].type = "RELEASE_HANDLE"}

\* The step posts no RELEASE_HANDLE for an id that is already in the
\* released set, and none twice.
ReleasesOnlyNew(p) ==
  \A i \in ReleasesIn(Posted(p)) :
    /\ Posted(p)[i].handle \notin released
    /\ \A j \in ReleasesIn(Posted(p)) : Posted(p)[j].handle = Posted(p)[i].handle => i = j

\* C36 (as the spec states it): at most one RELEASE_HANDLE is sent per
\* handle id, whatever mix of __release calls, finalisation callbacks,
\* weak-reference sweeps and page-lifecycle events occurs: no step posts a
\* RELEASE_HANDLE for an id the released set already holds.
C36_ReleasedOnce ==
  [][\A p \in Providers : Len(toServer'[p]) > Len(toServer[p]) => ReleasesOnlyNew(p)]_vars

\* C36, the part that holds: the weak-reference sweeper and the
\* page-lifecycle handlers, which consult the released set, post no
\* RELEASE_HANDLE for an id it already holds.
C36_GuardedPathsReleaseOnce ==
  [][\A p \in Providers :
       (Len(toServer'[p]) > Len(toServer[p])
          /\ releaseCount' = releaseCount /\ heap' = heap) => ReleasesOnlyNew(p)]_vars

\* C36 witness: two RELEASE_HANDLE messages for one handle id are on their
\* way to the provider.
C36_TwiceWitness ==
  \E p \in Providers : \E i, j \in ReleasesIn(toServer[p]) :
    i < j /\ toServer[p][i].handle = toServer[p][j].handle

\* A step of the garbage-collection machinery: a finalisation callback or a
\* tick of the weak-reference sweeper (no __release call, no page event).
GcStep == releaseCount' = releaseCount /\ pageLog' = pageLog

\* The handles a step marks released or posts RELEASE_HANDLE for.
ReleasedBy == (released' \ released) \cup {h \in ActiveIds \cup released' : SendsRelease(h)}

\* C37 (as the spec states it): in lazy mode garbage collection releases a
\* handle only after the reference returned to the caller was collected;
\* the collection of a sub-proxy made by reading a nested object never
\* marks the handle released nor posts RELEASE_HANDLE while the returned
\* reference is alive.
C37_SubProxyGcKeepsHandle ==
  [][(cOpts.hideStructure /\ GcStep) => \A h \in ReleasedBy : RootCollected(h)]_vars

\* C37, the part that holds: the same for every handle no nested object of
\* which was read (in materialised mode, every handle).
C37_WithoutSubProxies ==
  [][GcStep => \A h \in ReleasedBy : <<h, "sub">> \notin DOMAIN heap => RootCollected(h)]_vars

\* C37 witness: in lazy mode, in a host with FinalizationRegistry, the
\* finalisation callback of a collected sub-proxy has run; the handle is
\* marked released although the returned reference is alive and the user
\* code released nothing.
C37_FinalizedSubWitness ==
  /\ cOpts.hideStructure /\ cOpts.finalReg /\ pageLog = <<>> /\ relCalled = {}
  /\ \E h \in released : Alive(h) /\ heap[<<h, "sub">>] = "finalized"

\* C37 witness of the part that holds: the returned reference of a handle
\* without sub-proxies was collected and the handle released by the
\* garbage-collection machinery alone.
C37_RootCollectedWitness ==
  /\ cOpts.hideStructure /\ pageLog = <<>> /\ relCalled = {}
  /\ \E h \in released : RootCollected(h) /\ <<h, "sub">> \notin DOMAIN heap

\* The step in which the consumer's handler runs on a RESULT or an ERROR
\* that a window other than the bound one posted.
ForeignReplyTaken(p) ==
  /\ targetWindow # NoWindow
  /\ ReplyTaken(p)
  /\ Head(toClient[p]).src # targetWindow

\* C38 (as the spec states it): once bound, a RESULT or ERROR with the
\* right discriminator, name and call id that comes from a window other
\* than the bound provider's neither settles nor removes the pending entry.
C38_OnlyBoundWindowSettles ==
  [][\A p \in Providers : ForeignReplyTaken(p) => UNCHANGED <<pending, promise>>]_vars

\* C38, the part that holds: such a message leaves the pending entry alone
\* when the allowedOrigins policy rejects the origin of its window.
C38_RejectedOriginKeepsPending ==
  [][\A p \in Providers :
       (targetWindow # NoWindow /\ Dispatched(p)
          /\ Head(toClient[p]).type \in {"RESULT", "ERROR"}
          /\ Head(toClient[p]).src # targetWindow
          /\ PolicyRejects(Head(toClient[p]).origin)) =>
         UNCHANGED <<pending, promise>>]_vars

\* C38 witness: the consumer is bound to P1, whose slow function is still
\* running for the call; the call's promise was resolved by a RESULT the
\* window of P2 posted.
C38_ForeignSettledWitness ==
  /\ targetWindow = "P1" /\ serverOrigin = Origin("P1")
  /\ \E id \in DOMAIN promise :
       /\ calls[id].to = "P1"
       /\ \E r \in running["P1"] : r.id = id
       /\ promise[id].st = "resolved" /\ promise[id].val = Prim(0)
       /\ id \notin pending

\* The consumer is Ready: init() has resolved.
Ready == initPromise.st = "resolved"

\* C39 (as the spec states it): an INIT_ERROR received when the consumer is
\* Ready affects no call: the listener stays attached, and every RESULT or
\* ERROR delivered to a Ready consumer for a pending id (from an origin the
\* policy allows) settles that call.
C39_InitErrorAfterReady ==
  [][\A p \in Providers :
       /\ (Ready /\ Takes(p, "INIT_ERROR")) => listenerOn'
       /\ (Ready /\ Dispatched(p)
             /\ Head(toClient[p]).type \in {"RESULT", "ERROR"}
             /\ ~PolicyRejects(Head(toClient[p]).origin)
             /\ Head(toClient[p]).id \in pending) =>
            /\ Head(toClient[p]).id \notin pending'
            /\ promise'[Head(toClient[p]).id].st # "pending"]_vars

\* C39, the part that holds: an INIT_ERROR received when the consumer is
\* Ready changes neither the init promise nor the binding, the pending
\* table or any call's promise (it removes the listener).
C39_InitErrorKeepsState ==
  [][\A p \in Providers :
       (Ready /\ Takes(p, "INIT_ERROR")) =>
         /\ UNCHANGED <<initPromise, bindVars, callVars>>
         /\ ~listenerOn']_vars

\* C39 witness: the consumer became Ready and made a call; an INIT_ERROR
\* then removed the listener, the provider's reply was delivered to no
\* listener, and the call is pending with nothing left to settle it.
C39_StrandedCallWitness ==
  /\ Ready /\ ~listenerOn /\ "consumer" \in ignored
  /\ \E id \in pending :
       /\ InvokedFor(id) # {}
       /\ \A r \in running[calls[id].to] : r.id # id
       /\ \A p \in Providers : toClient[p] = <<>>

\* The handles of provider p's table on which a CALL is executing: taken,
\* its function's promise not yet settled.
Executing(p) == {r.handle : r \in running[p]} \cap DOMAIN handles[p]

\* C40 (as the spec states it): a tick of the TTL sweeper evicts no handle
\* on which a CALL is still executing, however long the function takes.
C40_SweepSparesExecuting ==
  [][\A p \in Providers : Sweep(p) => Executing(p) \subseteq DOMAIN handles'[p]]_vars

\* C40, amended: lastUsed is refreshed when a CALL is received, not while
\* it executes: a tick evicts a handle on which a CALL is executing exactly
\* when the time since that CALL (or a later one) was received exceeds the
\* TTL; the executing call is unaffected, its RESULT or ERROR is posted
\* when the function settles.
C40_EvictedByReceiptTime ==
  [][\A p \in Providers :
       /\ Sweep(p) =>
            \A h \in Executing(p) :
              h \in DOMAIN handles'[p] <=> now - handleMeta[p][h] <= sOpts.handleTtlMs
       /\ \A r \in running[p] \ running'[p] :
            /\ RepliesOnce(p, r.id)
            /\ Answered(p)[1].type = (IF r.ok THEN "RESULT" ELSE "ERROR")]_vars

\* C40 witness: a handle was created and one CALL made on it; the function
\* is still executing and the handle is gone from both tables, evicted by
\* the sweeper (no RELEASE_HANDLE was posted).
C40_EvictedWhileExecutingWitness ==
  /\ rawCount = 2 /\ toServer["P1"] = <<>> /\ Len(idSeq["P1"]) = 1
  /\ \E r \in running["P1"] :
       /\ r.handle = idSeq["P1"][1]
       /\ r.handle \notin DOMAIN handles["P1"] /\ r.handle \notin DOMAIN handleMeta["P1"]
====

